---- MODULE Spec2Model ----
(***************************************************************************)
(* CodeClarity server: the in-memory credential store (models/user.js),    *)
(* the token service and auth gates (middleware/auth.js, routes/auth.js)   *)
(* and the code-operation routes with their provider adapters and          *)
(* heuristic responders (routes/api.js).                                   *)
(*                                                                         *)
(* Conventions.  A JavaScript string whose characters the code inspects    *)
(* (emails, passwords, source code) is a sequence of one-character         *)
(* strings; a string that is only compared or echoed is a TLA+ string.     *)
(* An optional value (undefined / null) is a sequence of length 0 or 1.    *)
(* An absent request field is a field missing from the record's DOMAIN.    *)
(* Time is counted in days.                                                *)
(***************************************************************************)
EXTENDS Integers, Sequences, FiniteSets, Bags, TLC

VARIABLES
    users,        \* let users = []            (models/user.js)
    nextUserId,   \* let nextUserId = 1
    now,          \* the wall clock (Date.now), in days
    env,          \* process.env: the credentials and NODE_ENV
    pending,      \* the bag of requests suspended at an await
    last          \* the request completed most recently, with its response

vars == <<users, nextUserId, now, env, pending, last>>

----------------------------------------------------------------------------
(* Bounds *)

MaxUsers == 2
MaxPending == 2
MaxSessions == 2
MaxTime == 3
MaxCalls == 3
MaxCount == 3
MaxLines == 3

----------------------------------------------------------------------------
(* Strings *)

Range(s) == {s[i] : i \in 1..Len(s)}

IsSpace(c) == c \in {" ", "\t", "\r"}

\* String.prototype.includes(sub)
Includes(s, sub) ==
    \E i \in 1..(Len(s) - Len(sub) + 1) : SubSeq(s, i, i + Len(sub) - 1) = sub

\* String.prototype.trim()
RECURSIVE TrimLeft(_)
TrimLeft(s) == IF s # <<>> /\ IsSpace(Head(s)) THEN TrimLeft(Tail(s)) ELSE s

RECURSIVE TrimRight(_)
TrimRight(s) ==
    IF s # <<>> /\ IsSpace(s[Len(s)]) THEN TrimRight(SubSeq(s, 1, Len(s) - 1)) ELSE s

Trim(s) == TrimRight(TrimLeft(s))

\* !x for a request field x: undefined, null and '' are falsy
Missing(body, f) == f \notin DOMAIN body \/ body[f] = <<>>

----------------------------------------------------------------------------
(* models/user.js *)

\* bcrypt.hash(password, 12): the hash is not the password
HashPrefix == <<"$2a$12$">>

HashPassword(password) == HashPrefix \o password

\* bcrypt.compare(password, hash)
ComparePassword(password, hash) == hash = HashPrefix \o password

\* users.find(user => user.email === email): index of the first match, 0 if none
FindByEmailLatest(us, email) ==
    IF \E i \in 1..Len(us) : us[i].email = email
    THEN CHOOSE i \in 1..Len(us) :
            /\ us[i].email = email
            /\ \A j \in (i + 1)..Len(us) : us[j].email # email
    ELSE 0

FindByEmail(us, email) ==
    IF \E i \in 1..Len(us) : us[i].email = email
    THEN CHOOSE i \in 1..Len(us) :
            /\ us[i].email = email
            /\ \A j \in 1..(i - 1) : us[j].email # email
    ELSE 0

\* users.find(user => user.id === id)
FindById(us, id) ==
    IF \E i \in 1..Len(us) : us[i].id = id
    THEN CHOOSE i \in 1..Len(us) :
            /\ us[i].id = id
            /\ \A j \in 1..(i - 1) : us[j].id # id
    ELSE 0

\* new User(email, password, name = ''): name defaults only when undefined
NewUser(id, email, hashed, body) ==
    [id |-> id, email |-> email, password |-> hashed,
     name |-> IF "name" \in DOMAIN body THEN body.name ELSE "",
     createdAt |-> now, sessions |-> <<>>]

\* the projection create and authenticate return
PublicUserWhole(u) == u

PublicUser(u) ==
    [id |-> u.id, email |-> u.email, name |-> u.name, createdAt |-> u.createdAt]

\* User.create, after `await User.hashPassword`: the store is not read again
CreateAfterHashRescan(us, nid, body) ==
    IF FindByEmail(us, body.email) # 0
    THEN [thrown |-> <<"User already exists with this email">>,
          users |-> us, nextUserId |-> nid, value |-> <<>>]
    ELSE LET u == NewUser(nid, body.email, HashPassword(body.password), body)
         IN [thrown |-> <<>>, users |-> Append(us, u), nextUserId |-> nid + 1,
             value |-> <<PublicUser(u)>>]

CreateAfterHashSkipsId(us, nid, body) ==
    LET u == NewUser(nid + 1, body.email, HashPassword(body.password), body)
    IN [thrown |-> <<>>, users |-> Append(us, u), nextUserId |-> nid + 2,
        value |-> <<PublicUser(u)>>]

CreateAfterHash(us, nid, body) ==
    LET u == NewUser(nid, body.email, HashPassword(body.password), body)
    IN [thrown |-> <<>>, users |-> Append(us, u), nextUserId |-> nid + 1,
        value |-> <<PublicUser(u)>>]

\* User.authenticate up to `await User.comparePassword`: the error thrown, if any
AuthenticateNoUserDistinct(us, email) ==
    IF FindByEmail(us, email) = 0 THEN <<"No account with this email">> ELSE <<>>

AuthenticateNoUser(us, email) ==
    IF FindByEmail(us, email) = 0 THEN <<"Invalid email or password">> ELSE <<>>

\* User.authenticate after the comparison
AuthenticateAfterCompare(u, password) ==
    IF ~ComparePassword(password, u.password)
    THEN [thrown |-> <<"Invalid email or password">>, value |-> <<>>]
    ELSE [thrown |-> <<>>, value |-> <<PublicUser(u)>>]

----------------------------------------------------------------------------
(* Token service: jsonwebtoken as used by routes/auth.js and middleware *)

ExpiresInDays == 7

\* jwt.sign({ userId }, JWT_SECRET, { expiresIn: JWT_EXPIRES_IN || '7d' })
ExpiresIn(e) ==
    IF "JWT_EXPIRES_IN" \in DOMAIN e THEN e.JWT_EXPIRES_IN ELSE ExpiresInDays

GenerateToken(userId) ==
    [userId |-> userId, iat |-> now, exp |-> now + ExpiresIn(env),
     sig |-> env.JWT_SECRET]

\* jwt.verify(token, secret): the name of the error thrown, "" when it returns
JwtVerifyExpiresLate(token, secret, t) ==
    IF "sig" \notin DOMAIN token THEN "JsonWebTokenError"
    ELSE IF token.sig # secret THEN "JsonWebTokenError"
    ELSE IF "nbf" \in DOMAIN token /\ token.nbf > t THEN "NotBeforeError"
    ELSE IF t > token.exp THEN "TokenExpiredError"
    ELSE ""

JwtVerify(token, secret, t) ==
    IF "sig" \notin DOMAIN token THEN "JsonWebTokenError"       \* jwt malformed
    ELSE IF token.sig # secret THEN "JsonWebTokenError"         \* invalid signature
    ELSE IF "nbf" \in DOMAIN token /\ token.nbf > t THEN "NotBeforeError"
    ELSE IF t >= token.exp THEN "TokenExpiredError"
    ELSE ""

----------------------------------------------------------------------------
(* middleware/auth.js *)

Json(status, body) == [status |-> status, body |-> body]

\* `!authHeader`: no header, or the empty string
NoAuthHeader(headers) ==
    \/ "Authorization" \notin DOMAIN headers
    \/ (headers.Authorization.scheme = "" /\ headers.Authorization.token = <<>>)

\* the { id, email, name } attached to the request
RequestUser(u) == [id |-> u.id, email |-> u.email, name |-> u.name]

\* what a gate did with a request: the responses it sent, how often it called
\* next(), req.user (<<>> for null / never set), and what it did in order;
\* authMiddleware assigns req.user only on the path that ends in next()
Gate(sent, nexts, user) ==
    [sent |-> sent, nexts |-> nexts, user |-> user,
     steps |-> (IF user # <<>> THEN <<"req.user =">> ELSE <<>>)
               \o [i \in 1..Len(sent) |-> "res.json"]
               \o [i \in 1..nexts |-> "next"]]

\* req.user = user (null included); next()
SetUserAndNext(user) == [Gate(<<>>, 1, user) EXCEPT !.steps = <<"req.user =", "next">>]

Deny(status, message) ==
    Gate(<<Json(status, [success |-> FALSE, message |-> message])>>, 0, <<>>)

AuthMiddlewareNoLookup(headers, us, secret, t) ==
    IF NoAuthHeader(headers) THEN Deny(401, "No token provided, authorization denied")
    ELSE IF headers.Authorization.scheme # "Bearer " THEN Deny(401, "Invalid token format")
    ELSE IF headers.Authorization.token = <<>>
    THEN Deny(401, "No token provided, authorization denied")
    ELSE LET token == headers.Authorization.token[1]
             err == JwtVerify(token, secret, t)
         IN IF err = "JsonWebTokenError" THEN Deny(401, "Token is not valid")
            ELSE IF err = "TokenExpiredError" THEN Deny(401, "Token has expired")
            ELSE IF err # "" THEN Deny(500, "Server error in authentication")
            ELSE Gate(<<>>, 1, <<>>)

AuthMiddleware(headers, us, secret, t) ==
    IF NoAuthHeader(headers) THEN Deny(401, "No token provided, authorization denied")
    ELSE IF headers.Authorization.scheme # "Bearer " THEN Deny(401, "Invalid token format")
    ELSE IF headers.Authorization.token = <<>>
    THEN Deny(401, "No token provided, authorization denied")
    ELSE LET token == headers.Authorization.token[1]
             err == JwtVerify(token, secret, t)
         IN IF err = "JsonWebTokenError" THEN Deny(401, "Token is not valid")
            ELSE IF err = "TokenExpiredError" THEN Deny(401, "Token has expired")
            ELSE IF err # "" THEN Deny(500, "Server error in authentication")
            ELSE LET i == FindById(us, token.userId)
                 IN IF i = 0 THEN Deny(401, "Token is not valid - user not found")
                    ELSE Gate(<<>>, 1, <<RequestUser(us[i])>>)

OptionalAuthStrict(headers, us, secret, t) ==
    LET g == AuthMiddleware(headers, us, secret, t)
    IN IF NoAuthHeader(headers) \/ headers.Authorization.scheme # "Bearer "
       THEN Gate(<<>>, 1, <<>>)
       ELSE g

\* optionalAuth with the `return` before the empty token's next() left out
OptionalAuthNextTwice(headers, us, secret, t) ==
    IF NoAuthHeader(headers) \/ headers.Authorization.scheme # "Bearer "
    THEN SetUserAndNext(<<>>)
    ELSE IF headers.Authorization.token = <<>>
    THEN [Gate(<<>>, 2, <<>>) EXCEPT
              !.steps = <<"req.user =", "next", "req.user =", "next">>]
    ELSE LET token == headers.Authorization.token[1]
         IN IF JwtVerify(token, secret, t) # "" THEN SetUserAndNext(<<>>)
            ELSE LET i == FindById(us, token.userId)
                 IN SetUserAndNext(IF i = 0 THEN <<>> ELSE <<RequestUser(us[i])>>)

OptionalAuth(headers, us, secret, t) ==
    IF NoAuthHeader(headers) \/ headers.Authorization.scheme # "Bearer "
    THEN SetUserAndNext(<<>>)
    ELSE IF headers.Authorization.token = <<>> THEN SetUserAndNext(<<>>)
    ELSE LET token == headers.Authorization.token[1]
         IN IF JwtVerify(token, secret, t) # "" THEN SetUserAndNext(<<>>)
            ELSE LET i == FindById(us, token.userId)
                 IN SetUserAndNext(IF i = 0 THEN <<>> ELSE <<RequestUser(us[i])>>)

----------------------------------------------------------------------------
(* routes/auth.js *)

\* /^[^\s@]+@[^\s@]+\.[^\s@]+$/.test(email)
EmailRegexTest(email) ==
    LET Part(a, b) ==
            /\ a <= b
            /\ \A k \in a..b : ~IsSpace(email[k]) /\ email[k] # "@"
    IN \E i, j \in 1..Len(email) :
            /\ i < j
            /\ email[i] = "@"
            /\ email[j] = "."
            /\ Part(1, i - 1)
            /\ Part(i + 1, j - 1)
            /\ Part(j + 1, Len(email))

MinPasswordLength == 6

Fail(status, message) == Json(status, [success |-> FALSE, message |-> message])

\* the validation of POST /signup: the 400 it answers, <<>> when it passes
SignupValidateAnyLength(body) ==
    IF Missing(body, "email") \/ Missing(body, "password")
    THEN <<Fail(400, "Email and password are required")>>
    ELSE IF ~EmailRegexTest(body.email)
    THEN <<Fail(400, "Please provide a valid email address")>>
    ELSE <<>>

SignupValidate(body) ==
    IF Missing(body, "email") \/ Missing(body, "password")
    THEN <<Fail(400, "Email and password are required")>>
    ELSE IF ~EmailRegexTest(body.email)
    THEN <<Fail(400, "Please provide a valid email address")>>
    ELSE IF Len(body.password) < MinPasswordLength
    THEN <<Fail(400, "Password must be at least 6 characters long")>>
    ELSE <<>>

\* User.create up to `await User.hashPassword`: the error thrown, if any
CreateScanNever(us, email) == <<>>

CreateScan(us, email) ==
    IF FindByEmail(us, email) # 0
    THEN <<"User already exists with this email">>
    ELSE <<>>

\* the catch block of POST /signup
SignupCatch(message) ==
    IF message = "User already exists with this email"
    THEN Fail(409, message)
    ELSE Fail(500, "Server error during signup")

\* the catch block of POST /login
LoginCatch(message) ==
    IF message = "Invalid email or password"
    THEN Fail(401, message)
    ELSE Fail(500, "Server error during login")

Created(user) ==
    Json(201, [success |-> TRUE, message |-> "User created successfully",
               data |-> [user |-> user, token |-> GenerateToken(user.id)]])

LoggedIn(user) ==
    Json(200, [success |-> TRUE, message |-> "Login successful",
               data |-> [user |-> user, token |-> GenerateToken(user.id)]])

\* the suspended requests, and how many of them are inside User.create
Suspend(r) == pending (+) SetToBag({r})

Resume(r) == pending (-) SetToBag({r})

Suspended == BagToSet(pending)

Hashing == {r \in Suspended : r.pc = "hashing"}

CreatesPending ==
    IF Hashing = {} THEN 0
    ELSE BagCardinality([r \in Hashing |-> CopiesIn(r, pending)])

Done(route, req, res) == [route |-> route, req |-> req, res |-> res]

\* POST /api/auth/signup up to `await User.hashPassword(password)`
SignupBegin(body) ==
    /\ LET invalid == SignupValidate(body)
           thrown == CreateScan(users, body.email)
       IN IF invalid # <<>>
          THEN /\ last' = Done("signup", [body |-> body], invalid[1])
               /\ UNCHANGED pending
          ELSE IF thrown # <<>>
          THEN /\ last' = Done("signup", [body |-> body], SignupCatch(thrown[1]))
               /\ UNCHANGED pending
          ELSE /\ BagCardinality(pending) < MaxPending
               /\ Len(users) + CreatesPending < MaxUsers
               /\ pending' = Suspend([pc |-> "hashing", route |-> "signup",
                                       body |-> body])
               /\ UNCHANGED last
    /\ UNCHANGED <<users, nextUserId, now, env>>

\* POST /api/auth/signup from the resolution of the hash to the response
SignupFinish(r) ==
    /\ r.pc = "hashing"
    /\ LET body == r.body
           c == CreateAfterHash(users, nextUserId, body)
       IN /\ users' = c.users
          /\ nextUserId' = c.nextUserId
          /\ last' = Done("signup", [body |-> body],
                          IF c.thrown # <<>> THEN SignupCatch(c.thrown[1])
                          ELSE Created(c.value[1]))
    /\ pending' = Resume(r)
    /\ UNCHANGED <<now, env>>

\* POST /api/auth/login up to `await User.comparePassword(...)`
LoginBegin(body) ==
    /\ IF Missing(body, "email") \/ Missing(body, "password")
       THEN /\ last' = Done("login", [body |-> body],
                            Fail(400, "Email and password are required"))
            /\ UNCHANGED pending
       ELSE LET thrown == AuthenticateNoUser(users, body.email)
            IN IF thrown # <<>>
               THEN /\ last' = Done("login", [body |-> body], LoginCatch(thrown[1]))
                    /\ UNCHANGED pending
               ELSE /\ BagCardinality(pending) < MaxPending
                    /\ pending' = Suspend([pc |-> "comparing", route |-> "login",
                                            body |-> body,
                                            user |-> FindByEmail(users, body.email)])
                    /\ UNCHANGED last
    /\ UNCHANGED <<users, nextUserId, now, env>>

\* POST /api/auth/login from the resolution of the comparison to the response
LoginFinish(r) ==
    /\ r.pc = "comparing"
    /\ LET body == r.body
           a == AuthenticateAfterCompare(users[r.user], body.password)
       IN last' = Done("login", [body |-> body],
                       IF a.thrown # <<>> THEN LoginCatch(a.thrown[1])
                       ELSE LoggedIn(a.value[1]))
    /\ pending' = Resume(r)
    /\ UNCHANGED <<users, nextUserId, now, env>>

\* a route behind authMiddleware: the gate's response, or the handler's
Gated(route, headers, g, handled) ==
    [route |-> route, req |-> [headers |-> headers], gate |-> g,
     res |-> IF g.nexts > 0 THEN handled ELSE g.sent[1]]

\* GET /api/auth/me: req.user is echoed (an optional value in the model)
MeHandler(user) == Json(200, [success |-> TRUE, data |-> [user |-> user]])

Me(headers) ==
    /\ LET g == AuthMiddleware(headers, users, env.JWT_SECRET, now)
       IN last' = Gated("me", headers, g, MeHandler(g.user))
    /\ UNCHANGED <<users, nextUserId, now, env, pending>>

\* POST /api/auth/verify
VerifyHandler(user) ==
    Json(200, [success |-> TRUE, message |-> "Token is valid", data |-> [user |-> user]])

Verify(headers) ==
    /\ LET g == AuthMiddleware(headers, users, env.JWT_SECRET, now)
       IN last' = Gated("verify", headers, g, VerifyHandler(g.user))
    /\ UNCHANGED <<users, nextUserId, now, env, pending>>

----------------------------------------------------------------------------
(* routes/api.js: submitted code *)

(* A submitted code string is its text followed by `tail` spaces: the long   *)
(* submissions of the size check are a short text and a long run of spaces. *)

Min(a, b) == IF a < b THEN a ELSE b

\* code.length
CodeLength(code) == Len(code.text) + code.tail

\* the first n characters of the code
Chars(code, n) ==
    LET t == code.text
    IN IF n <= Len(t) THEN SubSeq(t, 1, n)
       ELSE t \o [i \in 1..Min(code.tail, n - Len(t)) |-> " "]

\* code.includes(sub)
CodeIncludes(code, sub) == Includes(Chars(code, Len(code.text) + Len(sub)), sub)

\* code.substring(0, n)
CodeSubstring(code, n) ==
    [text |-> SubSeq(code.text, 1, Min(n, Len(code.text))),
     tail |-> IF n <= Len(code.text) THEN 0 ELSE Min(code.tail, n - Len(code.text))]

\* text.split('\n'); the trailing spaces belong to the last line and are blank
RECURSIVE SplitLines(_)
SplitLines(text) ==
    IF \A i \in 1..Len(text) : text[i] # "\n" THEN <<text>>
    ELSE LET k == CHOOSE i \in 1..Len(text) :
                    text[i] = "\n" /\ \A j \in 1..(i - 1) : text[j] # "\n"
         IN <<SubSeq(text, 1, k - 1)>> \o SplitLines(SubSeq(text, k + 1, Len(text)))

RECURSIVE Filter(_, _)
Filter(lines, keep) ==
    IF lines = <<>> THEN <<>>
    ELSE (IF Head(lines) \in keep THEN <<Head(lines)>> ELSE <<>>)
         \o Filter(Tail(lines), keep)

\* code.split('\n').filter(line => line.trim())
NonBlankLines(code) ==
    LET lines == SplitLines(code.text)
    IN Filter(lines, {l \in Range(lines) : Trim(l) # <<>>})

----------------------------------------------------------------------------
(* routes/api.js: prompts and heuristic responders *)

\* the first sentence of each prompt, cut at the phrases the code looks for
prompts ==
    [analyze   |-> <<"You are a helpful ", "programming tutor", " and expert ",
                     "code analyst", ". Analyze the provided code">>,
     translate |-> <<"You are a ", "code translator", ". Convert code">>,
     debug     |-> <<"You are an expert ", "code debugger",
                     " and quality assurance specialist.">>]

\* prompt.includes(phrase)
PromptIncludes(prompt, phrase) == phrase \in Range(prompt)

\* targetLang.toLowerCase()
ToLowerCase(language) ==
    CASE language = "Python" -> "python"
      [] language = "JavaScript" -> "javascript"
      [] language = "Java" -> "java"
      [] language = "Rust" -> "rust"
      [] OTHER -> language

DemoLineLimit == 3

\* getDemoResponse, analysis branch: lines.slice(0, 3).forEach(...)
DemoAnalysisItemsUntrimmed(lines, language) ==
    [i \in 1..Min(DemoLineLimit, Len(lines)) |->
        [line |-> lines[i],
         explanation |-> <<"This line contains ", language, " code.">>]]

DemoAnalysisItems(lines, language) ==
    [i \in 1..Min(DemoLineLimit, Len(lines)) |->
        [line |-> Trim(lines[i]),
         explanation |-> <<"This line contains ", language, " code.">>]]

\* getDemoResponse(prompt, code, language, targetLanguage = null)
GetDemoResponse(prompt, code, language, targetLanguage) ==
    IF \/ PromptIncludes(prompt, "programming tutor")
       \/ PromptIncludes(prompt, "code analyst")
       \/ PromptIncludes(prompt, "JavaScript developer")
    THEN LET lines == NonBlankLines(code)
             more == IF Len(lines) > DemoLineLimit
                     THEN <<[line |-> <<"... and ", ToString(Len(lines) - DemoLineLimit),
                                        " more lines">>,
                             explanation |-> <<"Add your OpenAI API key">>]>>
                     ELSE <<>>
         IN [language |-> language,
             overview |-> <<"This appears to be ", language, " code with ",
                            ToString(Len(lines)), " lines. ">>,
             lineByLineAnalysis |-> DemoAnalysisItems(lines, language) \o more,
             output |-> <<"Add your OpenAI API key to get accurate output prediction">>,
             summary |-> <<"This is ", language, " code that requires OpenAI API analysis">>,
             suggestions |-> <<"Add your OpenAI API key to get AI-powered code suggestions and improvements">>]
    ELSE IF PromptIncludes(prompt, "code translator")
    THEN LET targetLang == IF targetLanguage = <<>> THEN "Python" ELSE targetLanguage[1]
         IN [language |-> targetLang,
             translatedCode |-> [demoTranslationTo |-> targetLang,
                                 originalCode |-> CodeSubstring(code, 100)],
             dependencies |-> <<ToLowerCase(targetLang) \o "-demo-package">>,
             notes |-> <<"This is a demo translation.">>]
    ELSE [error |-> "Unknown prompt type", rawResponse |-> <<"Demo mode active">>]

\* getDebugDemoResponse(code, language): called by callGeminiDebug only
GetDebugDemoResponse(code, language) ==
    LET lines == NonBlankLines(code)
        Issue(type, severity, description) ==
            [type |-> type, severity |-> severity, line |-> "multiple",
             description |-> description]
        logging == IF CodeIncludes(code, <<"c","o","n","s","o","l","e",".","l","o","g">>)
                      /\ Len(lines) > 10
                   THEN <<Issue("debugging", "low",
                                <<"Multiple console.log statements found">>)>>
                   ELSE <<>>
        scoping == IF CodeIncludes(code, <<"v","a","r"," ">>)
                   THEN <<Issue("syntax", "medium", <<"Usage of 'var' keyword found">>)>>
                   ELSE <<>>
        unhandled == IF /\ ~CodeIncludes(code, <<"t","r","y">>)
                        /\ \/ CodeIncludes(code, <<"J","S","O","N",".","p","a","r","s","e">>)
                           \/ CodeIncludes(code, <<"f","e","t","c","h">>)
                     THEN <<Issue("runtime", "high",
                                  <<"Potential unhandled errors in async operations">>)>>
                     ELSE <<>>
        issues == logging \o scoping \o unhandled
    IN [language |-> language,
        issues |-> IF issues # <<>> THEN issues
                   ELSE <<[type |-> "general", severity |-> "low", line |-> "N/A",
                           description |-> <<"No obvious issues detected in demo mode">>]>>,
        suggestions |-> <<"Add your Gemini API key to get AI-powered debugging analysis",
                          "Consider adding error handling and input validation",
                          "Review code for performance optimizations">>,
        fixedCode |-> [demoFixedCode |-> code],
        summary |-> <<"Demo debugging analysis for ", language, " code.">>]

\* generateSmartPythonTranslation: the transliterator chosen for the language
\* (the text a transliterator writes is named by the transliterator and its
\* arguments; every one of them opens with "# Translated from ... to Python")
GenerateSmartPythonTranslation(code, language) ==
    IF language = "Java" THEN [translateJavaToPython |-> code]
    ELSE IF language = "JavaScript" THEN [translateJavaScriptToPython |-> code]
    ELSE IF language = "C++" \/ language = "C#" THEN [translateCToPython |-> code]
    ELSE [translateGenericToPython |-> code, language |-> language]

\* getDemoTranslateResponse(code, language)
GetDemoTranslateResponse(code, language) ==
    [language |-> "Python",
     translatedCode |-> GenerateSmartPythonTranslation(code, language),
     dependencies |-> <<"# No additional dependencies required">>,
     notes |-> <<"Translated from ", language, " to Python using smart pattern matching.">>]

----------------------------------------------------------------------------
(* routes/api.js: provider adapters *)

\* the credential checks that open callOpenAI and callHuggingFaceTranslate
OpenAILive(e) ==
    e.OPENAI_API_KEY \notin {"", "sk-test-demo-key-for-testing", "your_openai_api_key_here"}

HfLiveOnePlaceholder(e) == e.HF_API_KEY \notin {"", "your_token_here"}

HfLive(e) == e.HF_API_KEY \notin {"", "your_token_here", "hf_your_actual_token_here"}

\* the credential check that opens callGeminiDebug
GeminiLive(e) == e.GEMINI_API_KEY \notin {"", "demo-key", "your_gemini_api_key_here"}

(* The text of a provider reply is a sequence of tokens: white space,      *)
(* a ``` fence with its info string, a JSON value (an object, or <<>> for  *)
(* null) and any other text.                                               *)
IsWs(tok) == tok.t = "ws"

RECURSIVE TrimTokensLeft(_)
TrimTokensLeft(toks) ==
    IF toks # <<>> /\ IsWs(Head(toks)) THEN TrimTokensLeft(Tail(toks)) ELSE toks

RECURSIVE TrimTokensRight(_)
TrimTokensRight(toks) ==
    IF toks # <<>> /\ IsWs(toks[Len(toks)])
    THEN TrimTokensRight(SubSeq(toks, 1, Len(toks) - 1))
    ELSE toks

\* response.trim(), then the two replace() calls of the branch that applies
StripFence(response) ==
    LET clean == TrimTokensRight(TrimTokensLeft(response))
        Closing(toks) ==
            IF toks # <<>> /\ toks[Len(toks)].t = "fence" /\ toks[Len(toks)].info = ""
            THEN TrimTokensRight(SubSeq(toks, 1, Len(toks) - 1))
            ELSE toks
    IN IF clean = <<>> \/ Head(clean).t # "fence" THEN clean
       ELSE IF Head(clean).info \in {"json", ""}
       THEN Closing(TrimTokensLeft(Tail(clean)))
       ELSE Closing(<<[t |-> "text"]>> \o Tail(clean))      \* ```js leaves "js"

\* JSON.parse(cleanResponse): one JSON value, white space around it allowed
JsonParse(toks) ==
    LET inner == TrimTokensRight(TrimTokensLeft(toks))
    IN IF Len(inner) = 1 /\ inner[1].t = "json"
       THEN [ok |-> TRUE, value |-> inner[1].value]
       ELSE [ok |-> FALSE, value |-> <<>>]

\* error.message.includes(phrase)
MessageIncludes(message, phrase) == phrase \in Range(message)

\* callOpenAI up to `await openai.chat.completions.create(...)`: the value it
\* returns without a network call, or the call it is suspended at
CallOpenAIPostsTwice(e, prompt, code, language, targetLanguage) ==
    IF ~OpenAILive(e)
    THEN [awaits |-> FALSE,
          value |-> <<GetDemoResponse(prompt, code, language, targetLanguage)>>,
          calls |-> <<"callOpenAI", "getDemoResponse">>]
    ELSE [awaits |-> TRUE, value |-> <<>>,
          calls |-> <<"callOpenAI", "POST api.openai.com", "POST api.openai.com">>]

CallOpenAI(e, prompt, code, language, targetLanguage) ==
    IF ~OpenAILive(e)
    THEN [awaits |-> FALSE,
          value |-> <<GetDemoResponse(prompt, code, language, targetLanguage)>>,
          calls |-> <<"callOpenAI", "getDemoResponse">>]
    ELSE [awaits |-> TRUE, value |-> <<>>,
          calls |-> <<"callOpenAI", "POST api.openai.com">>]

\* callOpenAI from the settlement of the network call to its return value
\* (<<>> is a parsed JSON null)
CallOpenAIResumeParseToDemo(reply, prompt, code, language, targetLanguage) ==
    IF \/ "error" \in DOMAIN reply
       \/ reply.content = <<>>
       \/ ~JsonParse(StripFence(reply.content[1])).ok
    THEN [value |-> <<GetDemoResponse(prompt, code, language, targetLanguage)>>,
          calls |-> <<"getDemoResponse">>]
    ELSE [value |-> JsonParse(StripFence(reply.content[1])).value, calls |-> <<>>]

CallOpenAIResume(reply, prompt, code, language, targetLanguage) ==
    LET demo == [value |-> <<GetDemoResponse(prompt, code, language, targetLanguage)>>,
                 calls |-> <<"getDemoResponse">>]
    IN IF "error" \in DOMAIN reply
       THEN IF MessageIncludes(reply.error, "rate limit") THEN demo
            ELSE IF MessageIncludes(reply.error, "quota") THEN demo
            ELSE demo
       ELSE IF reply.content = <<>> THEN demo        \* response.length throws
       ELSE LET response == reply.content[1]
                parsed == JsonParse(StripFence(response))
            IN IF parsed.ok THEN [value |-> parsed.value, calls |-> <<>>]
               ELSE IF PromptIncludes(prompt, "code debugger")
               THEN [value |-> <<[language |-> language,
                                  issues |-> <<[type |-> "parsing", severity |-> "low",
                                                line |-> "N/A",
                                                description |->
                                                  <<"AI response could not be parsed as JSON">>]>>,
                                  suggestions |->
                                    <<"Review the raw AI response for debugging insights">>,
                                  fixedCode |-> code,
                                  summary |->
                                    <<"AI analysis completed but response format needs adjustment">>,
                                  rawResponse |-> response]>>,
                     calls |-> <<>>]
               ELSE [value |-> <<[error |-> "Failed to parse AI response",
                                  rawResponse |-> response]>>,
                     calls |-> <<>>]

ShortTranslation == 20
ShortResponseMin == 5
WrapCodeLength == 50

NoDependencies == <<"# No additional dependencies required">>

\* a text the model generated carries the attributes the code tests; the
\* texts the server writes itself all hold "# Translated from"
IsGenerated(pythonCode) == "structured" \in DOMAIN pythonCode

EmptyText ==
    [name |-> "", length |-> 0, newline |-> FALSE, structured |-> FALSE,
     imports |-> <<>>]

\* generateEnhancedPythonTranslation(originalCode, language, shortResponse)
GenerateEnhancedPythonTranslation(originalCode, language, shortResponse) ==
    LET smartTranslation == GenerateSmartPythonTranslation(originalCode, language)
    IN IF shortResponse.length > ShortResponseMin
       THEN [enhancedFrom |-> language, shortResponse |-> shortResponse,
             smartTranslation |-> smartTranslation]
       ELSE smartTranslation

\* extractPythonDependencies(pythonCode): the sample codes make no
\* transliterator write an import line
ExtractPythonDependencies(pythonCode) ==
    LET body == IF "wrappedFrom" \in DOMAIN pythonCode THEN pythonCode.body
                ELSE pythonCode
    IN IF IsGenerated(body) /\ body.imports # <<>> THEN body.imports
       ELSE NoDependencies

\* processHuggingFaceTranslateResponse(hfResponse, code, language)
ProcessHfKeepsSourceLanguage(hfResponse, code, language) ==
    [GetDemoTranslateResponse(code, language) EXCEPT !.language = language]

ProcessHuggingFaceTranslateResponse(hfResponse, code, language) ==
    IF hfResponse.kind = "null"
    THEN GetDemoTranslateResponse(code, language)    \* TypeError, caught inside
    ELSE LET generatedText ==
                 IF hfResponse.kind \in {"array", "object", "string"}
                    /\ "generated_text" \in DOMAIN hfResponse
                 THEN hfResponse.generated_text
                 ELSE [echo |-> "", python |-> EmptyText]
             \* split at the marker the prompt ends with, when it is echoed
             stripped == generatedText.python
             short == IF stripped.length < ShortTranslation \/ ~stripped.newline
                      THEN GenerateEnhancedPythonTranslation(code, language, stripped)
                      ELSE stripped
             pythonCode ==
                 IF IsGenerated(short) /\ ~short.structured
                    /\ CodeLength(code) > WrapCodeLength
                 THEN [wrappedFrom |-> language, body |-> short]
                 ELSE short
         IN [language |-> "Python",
             translatedCode |-> pythonCode,
             dependencies |-> ExtractPythonDependencies(pythonCode),
             notes |-> <<"Successfully translated ", language,
                         " code to Python using Hugging Face CodeT5+ model.">>]

\* callHuggingFaceTranslate up to `await axios.post(...)`
CallHuggingFaceTranslate(e, code, language) ==
    IF ~HfLive(e)
    THEN [awaits |-> FALSE, value |-> <<GetDemoTranslateResponse(code, language)>>,
          calls |-> <<"callHuggingFaceTranslate", "getDemoTranslateResponse">>]
    ELSE [awaits |-> TRUE, value |-> <<>>,
          calls |-> <<"callHuggingFaceTranslate",
                      "POST api-inference.huggingface.co">>]

\* openaiResult && openaiResult.translatedCode
HasTranslatedCodeField(openaiResult) ==
    /\ openaiResult # <<>>
    /\ "translatedCode" \in DOMAIN openaiResult[1]

HasTranslatedCode(openaiResult) ==
    /\ openaiResult # <<>>
    /\ "translatedCode" \in DOMAIN openaiResult[1]
    /\ openaiResult[1].translatedCode # <<>>

\* the catch block of callHuggingFaceTranslate once callOpenAI has returned
TranslateFallbackAlwaysSmart(openaiResult, code, language) ==
    [value |-> GetDemoTranslateResponse(code, language),
     calls |-> <<"getDemoTranslateResponse">>]

TranslateFallback(openaiResult, code, language) ==
    IF HasTranslatedCode(openaiResult)
    THEN [value |-> openaiResult[1], calls |-> <<>>]
    ELSE [value |-> GetDemoTranslateResponse(code, language),
          calls |-> <<"getDemoTranslateResponse">>]

----------------------------------------------------------------------------
(* routes/api.js: the code-operation routes *)

MaxCodeLength == 10000

\* !code, and !x for a field x that is only compared
MissingCode(body) == "code" \notin DOMAIN body \/ CodeLength(body.code) = 0

Blank(body, f) == f \notin DOMAIN body \/ body[f] = ""

\* code.length > 10000
TooLongNever(code) == FALSE

TooLong(code) == CodeLength(code) > MaxCodeLength

\* the validation that opens each handler: the 400 it answers, <<>> when it passes
CodeOpValidate(route, body) ==
    IF \/ MissingCode(body)
       \/ Blank(body, "language")
       \/ (route = "translate" /\ Blank(body, "targetLanguage"))
    THEN <<Fail(400, IF route = "translate"
                     THEN "Code, source language, and target language are required"
                     ELSE "Code and language are required")>>
    ELSE IF TooLong(body.code)
    THEN <<Fail(400, "Code is too long. Maximum 10,000 characters allowed.")>>
    ELSE <<>>

\* User.addSession(userId, sessionData)
AddSessionUnshift(us, userId, sessionData) ==
    LET i == FindById(us, userId)
    IN IF i = 0 THEN [users |-> us, value |-> FALSE]
       ELSE [users |-> [us EXCEPT ![i].sessions =
                            <<[timestamp |-> now] @@ sessionData @@ [id |-> now]>> \o @],
             value |-> TRUE]

AddSession(us, userId, sessionData) ==
    LET i == FindById(us, userId)
    IN IF i = 0 THEN [users |-> us, value |-> FALSE]
       ELSE [users |-> [us EXCEPT ![i].sessions =
                            Append(@, [timestamp |-> now] @@ sessionData @@ [id |-> now])],
             value |-> TRUE]

\* the object each handler passes to User.addSession
SessionDataAlwaysAnalyze(r, result) ==
    [type |-> "analyze", code |-> r.body.code, language |-> r.body.language,
     result |-> result]

SessionData(r, result) ==
    IF r.route = "translate"
    THEN [type |-> "translate", code |-> r.body.code, language |-> r.body.language,
          targetLanguage |-> r.body.targetLanguage, result |-> result]
    ELSE [type |-> r.route, code |-> r.body.code, language |-> r.body.language,
          result |-> result]

Ok(result) == Json(200, [success |-> TRUE, data |-> result])

\* a completed code operation: the request as the gate left it, the adapter,
\* responder and network calls made for it, the provider replies it got, and
\* the response
Served(r, calls, replies, res) ==
    [route |-> r.route,
     req |-> [headers |-> r.headers, body |-> r.body, user |-> r.user],
     gate |-> r.gate, calls |-> calls, replies |-> replies, res |-> res]

TotalSessions(us) ==
    LET Sum[i \in 0..Len(us)] == IF i = 0 THEN 0 ELSE Sum[i - 1] + Len(us[i].sessions)
    IN Sum[Len(us)]

AwaitingOpenAI == {r \in Suspended : r.pc = "openai"}

AwaitingHf == {r \in Suspended : r.pc = "huggingface"}

\* the suspended code operations that will append a session
SessionsPending ==
    LET S == {r \in Suspended : r.pc \in {"openai", "huggingface"} /\ r.user # <<>>}
    IN IF S = {} THEN 0 ELSE BagCardinality([r \in S |-> CopiesIn(r, pending)])

\* the handler from the adapter's return value to the response; `result.language`
\* is read by the logging of /analyze and /debug and throws on null
Respond(r, calls, replies, result) ==
    IF result = <<>>
    THEN /\ last' = Served(r, calls, replies,
                           Fail(500, "Cannot read properties of null (reading 'language')"))
         /\ UNCHANGED users
    ELSE /\ users' = IF r.user # <<>>
                     THEN AddSession(users, r.user[1].id, SessionData(r, result[1])).users
                     ELSE users
         /\ last' = Served(r, calls, replies, Ok(result[1]))

\* optionalAuth, then the destructuring of req.body
Arrive(route, headers, body) ==
    LET g == OptionalAuth(headers, users, env.JWT_SECRET, now)
    IN [route |-> route, headers |-> headers, body |-> body, user |-> g.user, gate |-> g]

\* a valid request starts an adapter: completed at once when the adapter makes
\* no network call, suspended at the call otherwise
Enter(r, c, pc) ==
    /\ r.user # <<>> => TotalSessions(users) + SessionsPending < MaxSessions
    /\ IF c.awaits
       THEN /\ BagCardinality(pending) < MaxPending
            /\ pending' = Suspend(r @@ [pc |-> pc, calls |-> c.calls, replies |-> <<>>])
            /\ UNCHANGED <<users, last>>
       ELSE /\ Respond(r, c.calls, <<>>, c.value)
            /\ UNCHANGED pending

\* POST /api/analyze and POST /api/debug up to `await callOpenAI(...)`
OpenAIRoute(route, headers, body) ==
    /\ LET r == Arrive(route, headers, body)
           invalid == CodeOpValidate(route, body)
       IN IF invalid # <<>>
          THEN /\ last' = Served(r, <<>>, <<>>, invalid[1])
               /\ UNCHANGED <<users, pending>>
          ELSE Enter(r, CallOpenAI(env, prompts[route], body.code, body.language, <<>>),
                      "openai")
    /\ UNCHANGED <<nextUserId, now, env>>

Analyze(headers, body) == OpenAIRoute("analyze", headers, body)

Debug(headers, body) == OpenAIRoute("debug", headers, body)

\* POST /api/translate up to `await axios.post(...)`
Translate(headers, body) ==
    /\ LET r == Arrive("translate", headers, body)
           invalid == CodeOpValidate("translate", body)
       IN IF invalid # <<>>
          THEN /\ last' = Served(r, <<>>, <<>>, invalid[1])
               /\ UNCHANGED <<users, pending>>
          ELSE Enter(r, CallHuggingFaceTranslate(env, body.code, body.language),
                      "huggingface")
    /\ UNCHANGED <<nextUserId, now, env>>

\* the OpenAI call of a suspended request settles
OpenAIReply(r, reply) ==
    /\ r.pc = "openai"
    /\ LET code == r.body.code
           language == r.body.language
           c == CallOpenAIResume(reply, prompts[r.route], code, language,
                                 IF r.route = "translate" THEN <<"Python">> ELSE <<>>)
           replies == Append(r.replies, reply)
       IN IF r.route = "translate"
          THEN LET t == TranslateFallback(c.value, code, language)
               IN Respond(r, r.calls \o c.calls \o t.calls, replies, <<t.value>>)
          ELSE Respond(r, r.calls \o c.calls, replies, c.value)
    /\ pending' = Resume(r)
    /\ UNCHANGED <<nextUserId, now, env>>

\* the Hugging Face call of a suspended request settles
HfReply(r, reply) ==
    /\ r.pc = "huggingface"
    /\ LET code == r.body.code
           language == r.body.language
           replies == Append(r.replies, reply)
       IN IF "error" \in DOMAIN reply
          THEN LET c == CallOpenAI(env, prompts.translate, code, language, <<"Python">>)
                   t == TranslateFallback(c.value, code, language)
               IN IF c.awaits
                  THEN /\ pending' = Resume(r) (+)
                                     SetToBag({[r EXCEPT !.pc = "openai",
                                                         !.calls = @ \o c.calls,
                                                         !.replies = replies]})
                       /\ UNCHANGED <<users, last>>
                  ELSE /\ Respond(r, r.calls \o c.calls \o t.calls, replies, <<t.value>>)
                       /\ pending' = Resume(r)
          ELSE /\ Respond(r, Append(r.calls, "processHuggingFaceTranslateResponse"),
                          replies,
                          <<ProcessHuggingFaceTranslateResponse(reply.data, code, language)>>)
               /\ pending' = Resume(r)
    /\ UNCHANGED <<nextUserId, now, env>>

----------------------------------------------------------------------------
(* Requests the clients send *)

EmailA == <<"a", "@", "b", ".", "c">>
EmailB == <<"A", "@", "b", ".", "c">>

Emails == {EmailA, EmailB}

BadEmails ==
    { <<"a", "b", ".", "c">>,              \* no @
      <<"a", "@", "b">>,                   \* no dot after the @
      <<"a", " ", "@", "b", ".", "c">>,    \* whitespace
      <<"a", "@", "@", "b", ".", "c">>,    \* two @
      <<"a", "@", "b", ".">>,              \* nothing after the dot
      <<"a", "@", ".", "c">>,              \* nothing before the dot
      <<"@", "b", ".", "c">>,              \* nothing before the @
      <<>> }                               \* ''

PasswordA == <<"s", "e", "c", "r", "e", "t">>
PasswordB == <<"h", "u", "n", "t", "e", "r", "2">>

Passwords == {PasswordA, PasswordB}

ShortPasswords == { <<"s", "e", "c", "r", "e">>, <<>> }

SignupBodies ==
    [email : {EmailA}, password : Passwords]
    \cup [email : {EmailB}, password : {PasswordA}, name : {"Ann"}]
    \cup [email : BadEmails, password : {PasswordA}]
    \cup [email : {EmailA}, password : ShortPasswords]
    \cup {[email |-> EmailA], [password |-> PasswordA]}

LoginBodies ==
    [email : Emails, password : Passwords]
    \cup {[email |-> EmailA], [password |-> PasswordA],
          [email |-> <<>>, password |-> PasswordA]}

DefaultJwtSecret == "default-jwt-secret-for-demo-only-change-in-production"

\* tokens a client may hold: issued by this process or, under the same secret,
\* before its restart; expired; signed with another key; not yet valid; not a JWT
ClientTokens ==
    {[userId |-> u, iat |-> 0, exp |-> ExpiresInDays, sig |-> DefaultJwtSecret] :
        u \in 1..MaxUsers}
    \cup {[userId |-> 1, iat |-> 0 - ExpiresInDays, exp |-> 0, sig |-> DefaultJwtSecret],
          [userId |-> 1, iat |-> 0, exp |-> ExpiresInDays, sig |-> "another-secret"],
          [userId |-> 1, iat |-> 0, exp |-> ExpiresInDays, nbf |-> 1,
           sig |-> DefaultJwtSecret],
          [raw |-> "not-a-jwt"]}

NoHeaders == [Accept |-> "application/json"]

Authorization(scheme, token) ==
    [Accept |-> "application/json",
     Authorization |-> [scheme |-> scheme, token |-> token]]

RequestHeaders ==
    {NoHeaders, Authorization("", <<>>), Authorization("Bearer ", <<>>)}
    \cup {Authorization("Bearer ", <<t>>) : t \in ClientTokens}
    \cup {Authorization("Basic ", <<t>>) : t \in {[raw |-> "dXNlcjpwYXNz"]}}

\* submitted code: `var x = 1;`, `print('hi')`, two lines, five non-blank lines
\* with indentation, white space only, the empty string, sixty characters, and
\* 10,000 and 10,001 characters
Code(text) == [text |-> text, tail |-> 0]

CodeVar == Code(<<"v", "a", "r", " ", "x", " ", "=", " ", "1", ";">>)

CodePrint == Code(<<"p", "r", "i", "n", "t", "(", "'", "h", "i", "'", ")">>)

CodeTwo == Code(<<"x", "\n", " ", "v", "a", "r", " ", "y">>)

CodeLines ==
    Code(<<" ", " ", "a", "=", "1", "\n", "\n", "\t", "b", "=", "2", " ", "\r", "\n",
           "c", "\n", " ", "\n", "d", "\n", "e">>)

CodeBlank == Code(<<" ", "\n", " ">>)

CodeEmpty == Code(<<>>)

CodeSixty == [text |-> <<"i", "n", "t", " ", "x", ";">>, tail |-> WrapCodeLength + 4]

CodeMax == [text |-> <<"x">>, tail |-> MaxCodeLength - 1]

CodeOver == [text |-> <<"x">>, tail |-> MaxCodeLength]

AnalyzeBodies ==
    [code : {CodeVar, CodeTwo, CodeLines, CodeBlank, CodeEmpty, CodeMax, CodeOver},
     language : {"JavaScript"}]
    \cup {[code |-> CodePrint, language |-> "Python"],
          [code |-> CodeVar], [language |-> "JavaScript"],
          [code |-> CodeVar, language |-> ""]}

TranslateBodies ==
    [code : {CodeVar, CodeLines, CodeEmpty, CodeMax, CodeOver},
     language : {"JavaScript"}, targetLanguage : {"Python"}]
    \cup {[code |-> CodePrint, language |-> "Python", targetLanguage |-> "Rust"],
          [code |-> CodeVar, language |-> "Java", targetLanguage |-> "Rust"],
          [code |-> CodeVar, language |-> "JavaScript"],
          [code |-> CodeVar, language |-> "JavaScript", targetLanguage |-> ""],
          [language |-> "JavaScript", targetLanguage |-> "Python"]}

\* the header of the holder of user 1's token
Bearer1 ==
    Authorization("Bearer ", <<[userId |-> 1, iat |-> 0, exp |-> ExpiresInDays,
                                sig |-> DefaultJwtSecret]>>)

\* guests with every body, every header with one body, and the holder of a
\* good token with an oversized and an incomplete body
AnalyzeRequests ==
    ({NoHeaders} \X AnalyzeBodies)
    \cup (RequestHeaders \X {[code |-> CodeVar, language |-> "JavaScript"]})
    \cup ({Bearer1} \X {[code |-> CodeOver, language |-> "JavaScript"],
                        [language |-> "JavaScript"]})

\* guests with every body, and every header with an oversized body
DebugRequests ==
    ({NoHeaders} \X AnalyzeBodies)
    \cup (RequestHeaders \X {[code |-> CodeOver, language |-> "JavaScript"]})

TranslateRequests ==
    ({NoHeaders} \X TranslateBodies)
    \cup (RequestHeaders \X {[code |-> CodeVar, language |-> "JavaScript",
                              targetLanguage |-> "Rust"]})
    \cup ({Bearer1} \X {[code |-> CodeOver, language |-> "JavaScript",
                         targetLanguage |-> "Python"],
                        [code |-> CodeVar, language |-> "JavaScript"]})

\* the requests sent to a server with live credentials: guests, the store
\* being empty
LiveAnalyzeRequests ==
    {NoHeaders} \X {[code |-> CodeVar, language |-> "JavaScript"],
                    [code |-> CodeLines, language |-> "JavaScript"],
                    [code |-> CodeOver, language |-> "JavaScript"],
                    [code |-> CodeVar]}

LiveTranslateRequests ==
    {NoHeaders} \X {[code |-> CodeVar, language |-> "JavaScript",
                     targetLanguage |-> "Rust"],
                    [code |-> CodeSixty, language |-> "Java",
                     targetLanguage |-> "Python"],
                    [code |-> CodeOver, language |-> "JavaScript",
                     targetLanguage |-> "Python"],
                    [code |-> CodeVar, language |-> "JavaScript"]}

\* signups that accompany the code operations
ApiSignupBodies ==
    {[email |-> EmailA, password |-> PasswordA],
     [email |-> EmailB, password |-> PasswordA, name |-> "Ann"]}

----------------------------------------------------------------------------
(* Replies the providers send *)

\* an object of the shape each prompt asks for
LiveResult ==
    [analyze |-> [language |-> "JavaScript", overview |-> <<"Declares x.">>,
                  lineByLineAnalysis |-> <<>>, output |-> <<"No output">>,
                  summary |-> <<"A declaration.">>, suggestions |-> <<>>],
     debug |-> [language |-> "JavaScript", issues |-> <<>>, suggestions |-> <<>>,
                fixedCode |-> [live |-> "let x = 1;"], summary |-> <<"No issues.">>],
     translate |-> [language |-> "Python", translatedCode |-> [live |-> "x = 1"],
                    dependencies |-> <<>>, notes |-> <<"Direct translation.">>]]

\* an object that lacks what the prompt asks for
PartialResult ==
    [analyze |-> [note |-> "partial"],
     debug |-> [note |-> "partial"],
     translate |-> [language |-> "Python", translatedCode |-> <<>>]]

Ws == [t |-> "ws"]

FenceTok(info) == [t |-> "fence", info |-> info]

JsonTok(value) == [t |-> "json", value |-> value]

\* message.content: bare JSON, JSON in a ```json fence, in a bare fence, in a
\* ```js fence, padded, prose, the JSON null, an incomplete object
OpenAIContents(route) ==
    LET json == JsonTok(<<LiveResult[route]>>)
    IN {<<json>>,
        <<FenceTok("json"), Ws, json, Ws, FenceTok("")>>,
        <<FenceTok(""), Ws, json, FenceTok("")>>,
        <<FenceTok("js"), Ws, json, Ws, FenceTok("")>>,
        <<Ws, json, Ws>>,
        <<[t |-> "text"]>>,
        <<JsonTok(<<>>)>>,
        <<JsonTok(<<PartialResult[route]>>)>>}

OpenAIErrors ==
    {<<"429 ", "rate limit", " reached for gpt-4o-mini">>,
     <<"429 You exceeded your current ", "quota">>,
     <<"Connection error.">>}

\* the call rejects, or resolves with a content (null for a refusal)
OpenAIReplies(route) ==
    {[error |-> m] : m \in OpenAIErrors}
    \cup {[content |-> <<c>>] : c \in OpenAIContents(route)}
    \cup {[content |-> <<>>]}

\* texts the translation model generates
Generated(name, length, newline, structured, imports) ==
    [name |-> name, length |-> length, newline |-> newline,
     structured |-> structured, imports |-> imports]

HfData ==
    {[kind |-> "array",
      generated_text |-> [echo |-> "## Python Translation:",
                          python |-> Generated("import os\ndef main(): ...", 26, TRUE,
                                               TRUE, <<"os">>)]],
     [kind |-> "array",
      generated_text |-> [echo |-> "",
                          python |-> Generated("x = 0\nprint(x + 1) # ok", 24, TRUE,
                                               FALSE, <<>>)]],
     [kind |-> "object",
      generated_text |-> [echo |-> "", python |-> Generated("x = 10", 6, FALSE, FALSE,
                                                            <<>>)]],
     [kind |-> "string",
      generated_text |-> [echo |-> "", python |-> Generated("x", 1, FALSE, FALSE, <<>>)]],
     [kind |-> "object"],
     [kind |-> "array"],
     [kind |-> "null"]}

HfErrors ==
    {<<"Request failed with status code 503">>, <<"timeout of 30000ms exceeded">>}

HfReplies == {[error |-> m] : m \in HfErrors} \cup {[data |-> d] : d \in HfData}

----------------------------------------------------------------------------
(* The process *)

NoKeys ==
    [JWT_SECRET |-> DefaultJwtSecret, NODE_ENV |-> "development",
     OPENAI_API_KEY |-> "", HF_API_KEY |-> "", GEMINI_API_KEY |-> ""]

Start ==
    /\ users = <<>>
    /\ nextUserId = 1
    /\ now = 0
    /\ pending = EmptyBag
    /\ last = [route |-> "none"]

InitAuth == Start /\ env = NoKeys

NextAuth ==
    \/ \E body \in SignupBodies : SignupBegin(body)
    \/ \E r \in Suspended : SignupFinish(r)
    \/ \E body \in LoginBodies : LoginBegin(body)
    \/ \E r \in Suspended : LoginFinish(r)
    \/ \E headers \in RequestHeaders : Me(headers)
    \/ \E headers \in RequestHeaders : Verify(headers)

\* the auth routes, requests overlapping freely
SpecAuth == InitAuth /\ [][NextAuth]_vars

\* the auth routes, a signup arriving only when no other is being served
SerialSignupBegin(body) == Hashing = {} /\ SignupBegin(body)

NextSerial ==
    \/ \E body \in SignupBodies : SerialSignupBegin(body)
    \/ \E r \in Suspended : SignupFinish(r)
    \/ \E body \in LoginBodies : LoginBegin(body)
    \/ \E r \in Suspended : LoginFinish(r)
    \/ \E headers \in RequestHeaders : Me(headers)
    \/ \E headers \in RequestHeaders : Verify(headers)

SpecSerial == InitAuth /\ [][NextSerial]_vars

\* process.env with the three provider credentials
Keys(openai, hf, gemini) ==
    [JWT_SECRET |-> DefaultJwtSecret, NODE_ENV |-> "development",
     OPENAI_API_KEY |-> openai, HF_API_KEY |-> hf, GEMINI_API_KEY |-> gemini]

\* no credential: unset, or the placeholders of the documentation
DemoEnvs ==
    {NoKeys,
     Keys("sk-test-demo-key-for-testing", "your_token_here", "demo-key"),
     Keys("your_openai_api_key_here", "hf_your_actual_token_here",
          "your_gemini_api_key_here")}

LiveEnvs ==
    {Keys("sk-proj-live", "", ""), Keys("", "hf_live", ""),
     Keys("sk-proj-live", "hf_live", "")}

InitDemo == Start /\ env \in DemoEnvs

NextDemo ==
    \/ \E body \in ApiSignupBodies : SerialSignupBegin(body)
    \/ \E r \in Suspended : SignupFinish(r)
    \/ \E q \in AnalyzeRequests : Analyze(q[1], q[2])
    \/ \E q \in DebugRequests : Debug(q[1], q[2])
    \/ \E q \in TranslateRequests : Translate(q[1], q[2])

\* the code-operation routes of a server without provider credentials
SpecDemo == InitDemo /\ [][NextDemo]_vars

InitLive == Start /\ env \in LiveEnvs

NextLive ==
    \/ \E q \in LiveAnalyzeRequests : Analyze(q[1], q[2])
    \/ \E q \in LiveAnalyzeRequests : Debug(q[1], q[2])
    \/ \E q \in LiveTranslateRequests : Translate(q[1], q[2])
    \/ \E r \in AwaitingOpenAI : \E reply \in OpenAIReplies(r.route) : OpenAIReply(r, reply)
    \/ \E r \in AwaitingHf : \E reply \in HfReplies : HfReply(r, reply)

\* the code-operation routes of a server with a live provider credential
SpecLive == InitLive /\ [][NextLive]_vars

\* every pairing of an OpenAI and a Hugging Face credential: unset, the
\* placeholders of the documentation, a real key
AllEnvs ==
    {Keys(openai, hf, "") :
        openai \in {"", "sk-test-demo-key-for-testing", "your_openai_api_key_here",
                    "sk-proj-live"},
        hf \in {"", "your_token_here", "hf_your_actual_token_here", "hf_live"}}

InitKeys == Start /\ env \in AllEnvs

\* the code-operation routes under every pairing of credentials
SpecKeys == InitKeys /\ [][NextLive]_vars

\* a guest and the holder of user 1's token asking for the same operation
SessionRequests(route) ==
    {NoHeaders, Bearer1}
    \X {IF route = "translate"
        THEN [code |-> CodeVar, language |-> "JavaScript", targetLanguage |-> "Rust"]
        ELSE [code |-> CodeVar, language |-> "JavaScript"]}

\* a rejected call and a generated translation
SessionHfReplies ==
    {[error |-> <<"Request failed with status code 503">>],
     [data |-> [kind |-> "array",
                generated_text |->
                    [echo |-> "## Python Translation:",
                     python |-> Generated("import os\ndef main(): ...", 26, TRUE, TRUE,
                                          <<"os">>)]]]}

InitSessions == Start /\ env \in {NoKeys, Keys("", "hf_live", "")}

NextSessions ==
    \/ \E body \in ApiSignupBodies : SerialSignupBegin(body)
    \/ \E r \in Suspended : SignupFinish(r)
    \/ \E q \in SessionRequests("analyze") : Analyze(q[1], q[2])
    \/ \E q \in SessionRequests("debug") : Debug(q[1], q[2])
    \/ \E q \in SessionRequests("translate") : Translate(q[1], q[2])
    \/ \E r \in AwaitingHf : \E reply \in SessionHfReplies : HfReply(r, reply)

\* signed-up users and guests using the code-operation routes, without
\* credentials and with a Hugging Face credential
SpecSessions == InitSessions /\ [][NextSessions]_vars

\* a day passes
Tick ==
    /\ now < MaxTime
    /\ now' = now + 1
    /\ UNCHANGED <<users, nextUserId, env, pending, last>>

\* the tokens the process has handed out: one to each user at signup, and the
\* one of the login answered last
HandedOut ==
    {[userId |-> users[i].id, iat |-> users[i].createdAt,
      exp |-> users[i].createdAt + ExpiresIn(env), sig |-> env.JWT_SECRET] :
        i \in 1..Len(users)}
    \cup (IF last.route = "login" /\ last.res.status = 200
          THEN {last.res.body.data.token} ELSE {})

ClockHeaders == {Authorization("Bearer ", <<t>>) : t \in HandedOut}

\* a guest, and user 1 with a token handed out to them
ClockAnalyzeHeaders ==
    {NoHeaders} \cup {Authorization("Bearer ", <<t>>) : t \in {h \in HandedOut : h.userId = 1}}

ClockBody(route) ==
    IF route = "translate"
    THEN [code |-> CodeVar, language |-> "JavaScript", targetLanguage |-> "Rust"]
    ELSE [code |-> CodeVar, language |-> "JavaScript"]

\* key.substring(0, n) + '...', or 'Not set'
KeyPrefix(key, n) ==
    IF key = "" THEN [text |-> "Not set"] ELSE [substring |-> key, to |-> n]

\* GET /api/health
Health ==
    /\ last' = Done("health", [headers |-> NoHeaders],
                    Json(200,
                         [success |-> TRUE,
                          message |-> "API is running",
                          timestamp |-> now,
                          openaiConfigured |->
                              env.OPENAI_API_KEY \notin {"", "your_openai_api_key_here",
                                                         "sk-test-demo-key-for-testing"},
                          huggingFaceConfigured |->
                              env.HF_API_KEY \notin {"", "your_token_here"},
                          geminiConfigured |->
                              env.GEMINI_API_KEY \notin {"", "demo-key",
                                                         "your_gemini_api_key_here"},
                          apiKeyPrefix |-> KeyPrefix(env.OPENAI_API_KEY, 20),
                          hfApiKeyPrefix |-> KeyPrefix(env.HF_API_KEY, 10),
                          geminiApiKeyPrefix |-> KeyPrefix(env.GEMINI_API_KEY, 10)]))
    /\ UNCHANGED <<users, nextUserId, now, env, pending>>

\* every value of the three credentials: unset, each placeholder, a real key
HealthEnvs ==
    {Keys(openai, hf, gemini) :
        openai \in {"", "sk-test-demo-key-for-testing", "your_openai_api_key_here",
                    "sk-proj-live"},
        hf \in {"", "your_token_here", "hf_your_actual_token_here", "hf_live"},
        gemini \in {"", "demo-key", "your_gemini_api_key_here", "AIza-live"}}

InitHealth == Start /\ env \in HealthEnvs

NextHealth ==
    \/ Health
    \/ Analyze(NoHeaders, ClockBody("analyze"))
    \/ Translate(NoHeaders, ClockBody("translate"))
    \/ \E r \in AwaitingOpenAI :
           OpenAIReply(r, [content |-> <<<<JsonTok(<<LiveResult[r.route]>>)>>>>])
    \/ \E r \in AwaitingHf : \E reply \in SessionHfReplies : HfReply(r, reply)

\* the health route beside the adapters it reports on
SpecHealth == InitHealth /\ [][NextHealth]_vars

\* the error-handling middleware of server.js
ErrorMiddleware(e, message) ==
    Json(500, [success |-> FALSE, message |-> "Something went wrong!",
               error |-> IF e.NODE_ENV = "development" THEN message
                         ELSE "Internal server error"])

\* a request whose JSON body express.json() cannot parse: the SyntaxError goes
\* to the error-handling middleware
MalformedBody(route) ==
    /\ last' = Done(route, [headers |-> NoHeaders],
                    ErrorMiddleware(env, "Unexpected end of JSON input"))
    /\ UNCHANGED <<users, nextUserId, now, env, pending>>

\* NODE_ENV unset, development and production, with a real OpenAI key
ErrorEnvs ==
    {[Keys("sk-proj-live", hf, "") EXCEPT !.NODE_ENV = mode] :
        hf \in {"", "hf_live"}, mode \in {"", "development", "production"}}

InitErrors == Start /\ env \in ErrorEnvs

NextErrors ==
    \/ \E route \in {"analyze", "signup"} : MalformedBody(route)
    \/ \E body \in ApiSignupBodies : SerialSignupBegin(body)
    \/ \E r \in Suspended : SignupFinish(r)
    \/ \E body \in ApiSignupBodies : LoginBegin(body)
    \/ \E r \in Suspended : LoginFinish(r)
    \/ Analyze(NoHeaders, ClockBody("analyze"))
    \/ Debug(NoHeaders, ClockBody("debug"))
    \/ Translate(NoHeaders, ClockBody("translate"))
    \/ \E r \in AwaitingOpenAI :
           \E reply \in {[content |-> <<<<JsonTok(<<LiveResult[r.route]>>)>>>>],
                          [content |-> <<<<JsonTok(<<>>)>>>>],
                          [error |-> <<"Connection error.">>]} :
               OpenAIReply(r, reply)
    \/ \E r \in AwaitingHf : \E reply \in SessionHfReplies : HfReply(r, reply)

\* the routes that can answer 500, under each NODE_ENV
SpecErrors == InitErrors /\ [][NextErrors]_vars

----------------------------------------------------------------------------
(* routes/api.js: the language detector. A code is what the detector can   *)
(* see of it: the keywords it includes and the patterns that match it.     *)

\* languageSignatures, in the order of its keys: the keywords and the sources
\* of the patterns of each language

languageSignatures ==
    <<[name |-> "JavaScript",
       keywords |-> <<"function", "var", "let", "const", "console.log", "document.", "window.", "=>", "async", "await">>,
       patterns |-> <<"function\\s+\\w+\\s*\\(", "console\\.log\\s*\\(", "document\\.\\w+", "=>\\s*{?", "require\\s*\\(">>],
      [name |-> "Python",
       keywords |-> <<"def", "print(", "import", "from", "if __name__", "elif", "True", "False", "None">>,
       patterns |-> <<"def\\s+\\w+\\s*\\(", "print\\s*\\(", "if\\s+__name__\\s*==", "import\\s+\\w+", "from\\s+\\w+\\s+import">>],
      [name |-> "Java",
       keywords |-> <<"public class", "private", "public static void main", "System.out.println", "import java">>,
       patterns |-> <<"public\\s+class\\s+\\w+", "public\\s+static\\s+void\\s+main", "System\\.out\\.print", "import\\s+java\\.">>],
      [name |-> "C#",
       keywords |-> <<"using System", "public class", "Console.WriteLine", "namespace", "static void Main">>,
       patterns |-> <<"using\\s+System", "Console\\.WriteLine", "namespace\\s+\\w+", "static\\s+void\\s+Main">>],
      [name |-> "C++",
       keywords |-> <<"#include", "using namespace std", "cout <<", "cin >>", "int main()", "std::", "endl", "vector<", "string">>,
       patterns |-> <<"#include\\s*<", "using\\s+namespace\\s+std", "cout\\s*<<", "cin\\s*>>", "int\\s+main\\s*\\(", "std::", "endl", "vector\\s*<", "string\\s+\\w+">>],
      [name |-> "C",
       keywords |-> <<"#include <stdio.h>", "printf(", "scanf(", "int main()", "malloc(">>,
       patterns |-> <<"#include\\s*<stdio\\.h>", "printf\\s*\\(", "int\\s+main\\s*\\(", "malloc\\s*\\(">>],
      [name |-> "Go",
       keywords |-> <<"package main", "func main()", "import", "fmt.Println", "var", "func ", "go ", "chan ", "defer">>,
       patterns |-> <<"package\\s+main", "func\\s+main\\s*\\(\\s*\\)", "fmt\\.Print", "func\\s+\\w+\\s*\\(", "go\\s+\\w+", "chan\\s+\\w+", "defer\\s+">>],
      [name |-> "Rust",
       keywords |-> <<"fn main()", "println!", "let mut", "let ", "use ", "mod ", "impl ", "struct ", "enum ">>,
       patterns |-> <<"fn\\s+main\\s*\\(\\s*\\)", "println!\\s*\\(", "let\\s+mut\\s+", "let\\s+\\w+", "use\\s+\\w+", "struct\\s+\\w+", "impl\\s+\\w+", "enum\\s+\\w+">>],
      [name |-> "TypeScript",
       keywords |-> <<"interface ", "type ", ": string", ": number", ": boolean", "export ", "import ", "class ", "function ">>,
       patterns |-> <<"interface\\s+\\w+", "type\\s+\\w+\\s*=", ":\\s*string", ":\\s*number", ":\\s*boolean", "export\\s+", "import\\s+.*from", "class\\s+\\w+">>]>>

KeywordPoints == 2
PatternPoints == 3
SelectionBoost == 5

\* how many entries of a keyword or pattern list the code has
Hits(list, found) == Cardinality({k \in 1..Len(list) : list[k] \in found})

\* the `score: 0` of every entry of the literal
FreshScores == [i \in 1..Len(languageSignatures) |-> 0]

\* the scoring loop over Object.keys(languageSignatures)
ScoreAllNoBoost(scores, code, userSelectedLanguage) ==
    [i \in 1..Len(languageSignatures) |->
        scores[i]
        + KeywordPoints * Hits(languageSignatures[i].keywords, code.includes)
        + PatternPoints * Hits(languageSignatures[i].patterns, code.matches)]

ScoreAll(scores, code, userSelectedLanguage) ==
    [i \in 1..Len(languageSignatures) |->
        scores[i]
        + KeywordPoints * Hits(languageSignatures[i].keywords, code.includes)
        + PatternPoints * Hits(languageSignatures[i].patterns, code.matches)
        + (IF languageSignatures[i].name = userSelectedLanguage
           THEN SelectionBoost ELSE 0)]

\* languageSignatures[userSelectedLanguage]?.score || 0
SelectedScore(scores, userSelectedLanguage) ==
    LET at == {i \in 1..Len(languageSignatures) :
                  languageSignatures[i].name = userSelectedLanguage}
    IN IF at = {} THEN 0 ELSE scores[CHOOSE i \in at : TRUE]

\* the loop that looks for a strictly higher score, from entry i on
RECURSIVE FindHighest(_, _, _, _)
FindHighest(scores, i, detectedLanguage, maxScore) ==
    IF i > Len(languageSignatures)
    THEN [language |-> detectedLanguage, confidence |-> maxScore]
    ELSE IF scores[i] > maxScore
    THEN FindHighest(scores, i + 1, languageSignatures[i].name, scores[i])
    ELSE FindHighest(scores, i + 1, detectedLanguage, maxScore)

\* what a call returns when the score fields start as `scores`
DetectFrom(scores, code, userSelectedLanguage) ==
    LET scored == ScoreAll(scores, code, userSelectedLanguage)
        found == FindHighest(scored, 1, userSelectedLanguage,
                             SelectedScore(scored, userSelectedLanguage))
    IN [language |-> found.language, confidence |-> found.confidence,
        features |-> [getLanguageFeatures |-> found.language]]

\* the calls made so far, each with its arguments and its result
DetectLog == IF last.route = "detectLanguageAdvanced" THEN last.log ELSE <<>>

\* detectLanguageAdvanced(code, userSelectedLanguage): the table is a local
\* constant, built anew by every call
DetectLanguageAdvancedSharedTable(code, userSelectedLanguage) ==
    LET before == IF DetectLog = <<>> THEN FreshScores
                  ELSE ScoreAll(FreshScores, DetectLog[Len(DetectLog)].code,
                                DetectLog[Len(DetectLog)].userSelectedLanguage)
    IN DetectFrom(before, code, userSelectedLanguage)

DetectLanguageAdvanced(code, userSelectedLanguage) ==
    DetectFrom(FreshScores, code, userSelectedLanguage)

\* a call of the detector
Detect(code, userSelectedLanguage) ==
    /\ Len(DetectLog) < MaxCalls
    /\ last' = [route |-> "detectLanguageAdvanced",
                log |-> Append(DetectLog,
                               [code |-> code,
                                userSelectedLanguage |-> userSelectedLanguage,
                                result |-> DetectLanguageAdvanced(code,
                                                                  userSelectedLanguage)])]
    /\ UNCHANGED <<users, nextUserId, now, env, pending>>

\* "var x = 1;"

SrcVar ==
    [includes |-> {"var"},
     matches |-> {}]

\* "print('hi')"

SrcPrint ==
    [includes |-> {"print("},
     matches |-> {"print\\s*\\("}]

\* "let x = 1;"

SrcLet ==
    [includes |-> {"let", "let "},
     matches |-> {"let\\s+\\w+"}]

\* "#include <stdio.h>\nint main() { printf(\"hi\"); }"

SrcHello ==
    [includes |-> {"#include", "int main()", "#include <stdio.h>", "printf("},
     matches |-> {"#include\\s*<", "int\\s+main\\s*\\(", "#include\\s*<stdio\\.h>", "printf\\s*\\("}]

\* "x"

SrcPlain ==
    [includes |-> {},
     matches |-> {}]

DetectCodes == {SrcVar, SrcPrint, SrcLet, SrcHello, SrcPlain}

\* declared languages: candidates, and one the table does not have
DeclaredLanguages == {"JavaScript", "C++", "Go", "COBOL"}

InitDetect == Start /\ env = NoKeys

NextDetect ==
    \E code \in DetectCodes : \E language \in DeclaredLanguages : Detect(code, language)

\* calls of the language detector, in any order
SpecDetect == InitDetect /\ [][NextDetect]_vars

----------------------------------------------------------------------------
(* routes/api.js: the complexity scorer. A code is what the scorer counts  *)
(* in it: its non-blank lines and the matches of each regular expression.  *)

BeginnerBelow == 15
IntermediateBelow == 40
AdvancedBelow == 80

\* twice complexityScore, so that lines * 0.5 stays an integer
TwiceComplexityScore(code) ==
    code.lines
    + 2 * (code.functions * 3 + code.loops * 4 + code.conditions * 2
           + code.classes * 5 + code.recursion * 6 + code.asyncOperations * 5
           + code.errorHandling * 3 + code.nestedStructures * 4
           + code.complexDataStructures * 2)

DetermineComplexityIgnoresLoops(code) ==
    LET twice == TwiceComplexityScore([code EXCEPT !.loops = 0])
    IN IF twice < 2 * BeginnerBelow THEN "beginner"
       ELSE IF twice < 2 * IntermediateBelow THEN "intermediate"
       ELSE IF twice < 2 * AdvancedBelow THEN "advanced"
       ELSE "expert"

\* determineComplexity(code)
DetermineComplexity(code) ==
    LET twice == TwiceComplexityScore(code)
    IN IF twice < 2 * BeginnerBelow THEN "beginner"
       ELSE IF twice < 2 * IntermediateBelow THEN "intermediate"
       ELSE IF twice < 2 * AdvancedBelow THEN "advanced"
       ELSE "expert"

\* short and long codes, 29 and 30 lines being either side of 0.5 * lines = 15
LineCounts == {1, 29, 30, 59}

\* what a code has besides functions, loops and conditions: nothing, or much
OtherCounts ==
    {[classes |-> 0, recursion |-> 0, asyncOperations |-> 0, errorHandling |-> 0,
      nestedStructures |-> 0, complexDataStructures |-> 0],
     [classes |-> 1, recursion |-> 1, asyncOperations |-> 2, errorHandling |-> 2,
      nestedStructures |-> 2, complexDataStructures |-> 2]}

ComplexityCodes ==
    {[lines |-> n, functions |-> f, loops |-> l, conditions |-> c] @@ other :
        n \in LineCounts, f \in 0..MaxCount, l \in 0..MaxCount,
        c \in 0..MaxCount, other \in OtherCounts}

\* a call of the scorer on a code
Measure(code) ==
    /\ last' = [route |-> "determineComplexity", code |-> code,
                level |-> DetermineComplexity(code), before |-> <<>>]
    /\ UNCHANGED <<users, nextUserId, now, env, pending>>

\* a call on the code of the call before with one more match of `count`
MeasureWithOneMore(count) ==
    /\ last.route = "determineComplexity"
    /\ last.code[count] < MaxCount
    /\ LET code == [last.code EXCEPT ![count] = @ + 1]
       IN last' = [route |-> "determineComplexity", code |-> code,
                   level |-> DetermineComplexity(code),
                   before |-> <<[code |-> last.code, level |-> last.level]>>]
    /\ UNCHANGED <<users, nextUserId, now, env, pending>>

InitComplexity == Start /\ env = NoKeys

NextComplexity ==
    \/ \E code \in ComplexityCodes : Measure(code)
    \/ \E count \in {"functions", "loops", "conditions"} : MeasureWithOneMore(count)

\* calls of the complexity scorer
SpecComplexity == InitComplexity /\ [][NextComplexity]_vars

----------------------------------------------------------------------------
(* routes/api.js: the pattern-matching translators to Python. A source     *)
(* line is its trimmed text and the tests of the translators that hold of  *)
(* it; an output line is the kind of line written and the source line it   *)
(* was written from.                                                       *)

Emit(kind, line) == <<[kind |-> kind, of |-> line.trimmed]>>

\* a branch whose inner match decides whether a line is written
EmitIf(test, kind, line) == IF test \in line.holds THEN Emit(kind, line) ELSE <<>>

\* the body of lines.forEach in translateJavaToPython
JavaLine(line) ==
    LET is == line.holds IN
    IF line.trimmed = "" \/ "=== {" \in is \/ "=== }" \in is THEN <<>>
    ELSE IF "includes System.out.println(" \in is
    THEN EmitIf("/System\\.out\\.println\\s*\\(\\s*(.+?)\\s*\\)\\s*;?/", "print", line)
    ELSE IF "includes System.out.print(" \in is
    THEN EmitIf("/System\\.out\\.print\\s*\\(\\s*(.+?)\\s*\\)\\s*;?/", "print", line)
    ELSE IF "/^(int|double|float|long|short|byte)\\s+\\w+/" \in is
    THEN IF "/^(int|double|float|long|short|byte)\\s+(\\w+)\\s*=\\s*(.+?)\\s*;?$/" \in is
         THEN Emit("assignment", line)
         ELSE EmitIf("/^(int|double|float|long|short|byte)\\s+(\\w+)\\s*;?$/",
                     "assignment", line)
    ELSE IF "/^String\\s+\\w+/" \in is
    THEN EmitIf("/^String\\s+(\\w+)\\s*=\\s*(.+?)\\s*;?$/", "assignment", line)
    ELSE IF "startsWith if " \in is
    THEN EmitIf("/^if\\s*\\(\\s*(.+?)\\s*\\)\\s*\\{?/", "if", line)
    ELSE IF "startsWith else if " \in is
    THEN EmitIf("/^else\\s+if\\s*\\(\\s*(.+?)\\s*\\)\\s*\\{?/", "elif", line)
    ELSE IF "=== else {" \in is \/ "=== else" \in is THEN Emit("else", line)
    ELSE IF "startsWith for " \in is
    THEN EmitIf("/^for\\s*\\(\\s*(.+?)\\s*\\)\\s*\\{?/", "for", line)
    ELSE IF "startsWith while " \in is
    THEN EmitIf("/^while\\s*\\(\\s*(.+?)\\s*\\)\\s*\\{?/", "while", line)
    ELSE IF "includes =" \in is /\ "includes ==" \notin is
    THEN EmitIf("/^(\\w+)\\s*=\\s*(.+?)\\s*;?$/", "assignment", line)
    ELSE IF "endsWith ;" \in is THEN Emit("statement", line)
    ELSE <<>>

\* the body of lines.forEach in translateJavaScriptToPython
JavaScriptLine(line) ==
    LET is == line.holds IN
    IF line.trimmed = "" THEN <<[kind |-> "blank", of |-> ""]>>
    ELSE IF "/^function\\s+\\w+\\s*\\(/" \in is
    THEN EmitIf("/^function\\s+(\\w+)\\s*\\(([^)]*)\\)\\s*\\{?/", "def", line)
    ELSE IF "includes =>" \in is
    THEN EmitIf("/(\\w+)\\s*=>\\s*\\{?/", "arrow function", line)
    ELSE IF "/^(const|let|var)\\s+\\w+/" \in is
    THEN EmitIf("/^(const|let|var)\\s+(\\w+)\\s*=\\s*(.+?)\\s*;?$/", "assignment", line)
    ELSE IF "includes console.log(" \in is
    THEN EmitIf("/console\\.log\\s*\\(\\s*(.+?)\\s*\\)\\s*;?/", "print", line)
    ELSE IF "includes console.clear()" \in is THEN Emit("clear", line)
    ELSE IF "includes .push(" \in is
    THEN EmitIf("/(\\w+)\\.push\\s*\\(\\s*(.+?)\\s*\\)\\s*;?/", "append", line)
    ELSE IF "includes .forEach(" \in is
    THEN EmitIf("params.length <= 2", "for", line)
    ELSE IF "/^\\w+\\s*\\(/" \in is
    THEN EmitIf("/^(\\w+)\\s*\\(([^)]*)\\)\\s*;?/", "call", line)
    ELSE IF "=== }" \in is \/ "=== });" \in is THEN <<>>
    ELSE IF "startsWith if " \in is
    THEN EmitIf("/^if\\s*\\(\\s*(.+?)\\s*\\)\\s*\\{?/", "if", line)
    ELSE IF "=== else {" \in is \/ "=== else" \in is THEN Emit("else", line)
    ELSE IF "startsWith return " \in is THEN Emit("return", line)
    ELSE IF "includes =" \in is /\ "includes ==" \notin is /\ "includes ===" \notin is
    THEN EmitIf("/^(\\w+)\\s*=\\s*(.+?)\\s*;?$/", "assignment", line)
    ELSE IF "endsWith ;" \in is THEN Emit("statement", line)
    ELSE Emit("todo", line)

\* the body of lines.forEach in translateCToPython
CLine(line) ==
    LET is == line.holds IN
    IF line.trimmed = "" \/ "includes #include" \in is \/ "includes using namespace" \in is
    THEN <<>>
    ELSE IF "includes printf(" \in is \/ "includes cout <<" \in is
    THEN <<[kind |-> "print", of |-> ""]>>
    ELSE IF "/^(int|double|float|char)\\s+\\w+/" \in is
    THEN EmitIf("/^(int|double|float|char)\\s+(\\w+)\\s*=\\s*(.+?)\\s*;?$/",
                "assignment", line)
    ELSE Emit("comment", line)

\* lines.forEach(...): the lines written for a code, in order
RECURSIVE ForEachLine(_, _)
ForEachLine(lines, language) ==
    IF lines = <<>> THEN <<>>
    ELSE (CASE language = "Java" -> JavaLine(Head(lines))
            [] language = "JavaScript" -> JavaScriptLine(Head(lines))
            [] OTHER -> CLine(Head(lines)))
         \o ForEachLine(Tail(lines), language)

\* processedCode: what lies between the brace of the main method and the last
\* closing brace of the code, when the code has both. Of the lines of the
\* inputs the main header ends with its brace and a closing brace stands alone.
MainMethodMatch(code) ==
    LET headers == {k \in 1..Len(code) :
                       "/public\\s+static\\s+void\\s+main\\s*\\([^)]*\\)\\s*\\{/"
                           \in code[k].holds}
        first == CHOOSE k \in headers : \A j \in headers : k <= j
        closing == {m \in 1..Len(code) : "includes }" \in code[m].holds /\ m > first}
        final == CHOOSE m \in closing : \A j \in closing : j <= m
    IN IF headers = {} \/ closing = {} THEN code
       ELSE SubSeq(code, first + 1, final - 1)

\* translateJavaToPython(code): the lines of def main()
TranslateJavaToPython(code) ==
    LET pythonLines == ForEachLine(MainMethodMatch(code), "Java")
    IN IF Len(pythonLines) > 0 THEN pythonLines
       ELSE <<[kind |-> "print", of |-> ""]>>

\* translateJavaScriptToPython(code)
TranslateJavaScriptToPython(code) ==
    LET hasTopLevelCalls ==
            \E k \in 1..Len(code) :
                /\ "/^\\w+\\s*\\(/" \in code[k].holds
                /\ "startsWith function" \notin code[k].holds
                /\ "includes =>" \notin code[k].holds
    IN ForEachLine(code, "JavaScript")
       \o (IF hasTopLevelCalls THEN <<[kind |-> "execute", of |-> ""]>> ELSE <<>>)

\* translateCToPython(code)
TranslateCToPython(code) == ForEachLine(code, "C")

\* translateGenericToPython(code, language): the code as it is, and a TODO
TranslateGenericToPython(code, language) ==
    [k \in 1..Len(code) |-> [kind |-> "original", of |-> code[k].trimmed]]
    \o <<[kind |-> "todo", of |-> ""]>>

\* generateSmartPythonTranslation(code, language), for a code given by its
\* lines: the lines of the text that the translator chosen for the language
\* writes
SmartPythonLines(code, language) ==
    IF language = "Java" THEN TranslateJavaToPython(code)
    ELSE IF language = "JavaScript" THEN TranslateJavaScriptToPython(code)
    ELSE IF language \in {"C++", "C#"} THEN TranslateCToPython(code)
    ELSE TranslateGenericToPython(code, language)

\* foo()
LineCall ==
    [trimmed |-> "foo()",
     holds |-> {"/^\\w+\\s*\\(/", "/^(\\w+)\\s*\\(([^)]*)\\)\\s*;?/"}]

\* class A {
LineClass ==
    [trimmed |-> "class A {",
     holds |-> {}]

\* int x = 1;
LineInt ==
    [trimmed |-> "int x = 1;",
     holds |-> {"includes =", "endsWith ;",
               "/^(int|double|float|long|short|byte)\\s+\\w+/",
               "/^(int|double|float|long|short|byte)\\s+(\\w+)\\s*=\\s*(.+?)\\s*;?$/",
               "/^(int|double|float|char)\\s+\\w+/",
               "/^(int|double|float|char)\\s+(\\w+)\\s*=\\s*(.+?)\\s*;?$/"}]

\* int main() {
LineIntMain ==
    [trimmed |-> "int main() {",
     holds |-> {"/^(int|double|float|long|short|byte)\\s+\\w+/",
               "/^(int|double|float|char)\\s+\\w+/"}]

\* x++;
LineIncrement ==
    [trimmed |-> "x++;",
     holds |-> {"endsWith ;"}]

\* (a blank line)
LineBlank ==
    [trimmed |-> "",
     holds |-> {}]

\* public static void main(String[] args) {
LineMain ==
    [trimmed |-> "public static void main(String[] args) {",
     holds |-> {"/public\\s+static\\s+void\\s+main\\s*\\([^)]*\\)\\s*\\{/"}]

\* }
LineBrace ==
    [trimmed |-> "}",
     holds |-> {"includes }", "=== }"}]

SourceLines ==
    {LineCall, LineClass, LineInt, LineIntMain, LineIncrement, LineBlank, LineMain,
     LineBrace}

SourceCodes == UNION {[1..n -> SourceLines] : n \in 0..MaxLines}

SourceLanguages == {"Java", "JavaScript", "C++", "C#", "Go"}

\* the call of the translator on the code and language at hand
Transliterate ==
    /\ last.route = "source"
    /\ last' = [route |-> "generateSmartPythonTranslation", code |-> last.code,
                language |-> last.language,
                pythonCode |-> SmartPythonLines(last.code, last.language)]
    /\ UNCHANGED <<users, nextUserId, now, env, pending>>

\* a code and its language, not yet translated
InitTransliterate ==
    /\ users = <<>> /\ nextUserId = 1 /\ now = 0 /\ pending = EmptyBag /\ env = NoKeys
    /\ last \in [route : {"source"}, code : SourceCodes, language : SourceLanguages]

NextTransliterate == Transliterate

\* calls of the pattern-matching translators
SpecTransliterate == InitTransliterate /\ [][NextTransliterate]_vars

----------------------------------------------------------------------------
\* clients that all sign up and log in with one email, under either password,
\* and present the tokens of the signups
SharedEmailBodies == [email : {EmailA}, password : Passwords]

SignupTokenHeaders ==
    {Authorization("Bearer ", <<[userId |-> u, iat |-> 0, exp |-> ExpiresInDays,
                                 sig |-> DefaultJwtSecret]>>) : u \in 1..MaxUsers}

InitShared == Start /\ env = NoKeys

NextShared ==
    \/ \E body \in SharedEmailBodies : SignupBegin(body)
    \/ \E r \in Suspended : SignupFinish(r)
    \/ \E body \in SharedEmailBodies : LoginBegin(body)
    \/ \E r \in Suspended : LoginFinish(r)
    \/ \E headers \in SignupTokenHeaders : Me(headers)

\* signups with one email racing each other, logins and token checks
SpecShared == InitShared /\ [][NextShared]_vars

----------------------------------------------------------------------------
InitGates == Start /\ env = NoKeys

NextGates ==
    \/ \E body \in ApiSignupBodies : SerialSignupBegin(body)
    \/ \E r \in Suspended : SignupFinish(r)
    \/ \E headers \in RequestHeaders : Me(headers)
    \/ \E headers \in RequestHeaders : Verify(headers)
    \/ \E headers \in RequestHeaders :
          Analyze(headers, [code |-> CodeVar, language |-> "JavaScript"])

\* every kind of Authorization header at a route behind each gate
SpecGates == InitGates /\ [][NextGates]_vars

----------------------------------------------------------------------------
\* JWT_EXPIRES_IN=2d
InitClock == Start /\ env = [JWT_EXPIRES_IN |-> 2] @@ NoKeys

NextClock ==
    \/ Tick
    \/ \E body \in ApiSignupBodies : SerialSignupBegin(body)
    \/ \E r \in Suspended : SignupFinish(r)
    \/ LoginBegin([email |-> EmailA, password |-> PasswordA])
    \/ \E r \in Suspended : LoginFinish(r)
    \/ \E headers \in ClockHeaders : Me(headers)
    \/ \E headers \in ClockHeaders : Verify(headers)
    \/ \E headers \in ClockAnalyzeHeaders : Analyze(headers, ClockBody("analyze"))
    \/ Debug(NoHeaders, ClockBody("debug"))
    \/ Translate(NoHeaders, ClockBody("translate"))

\* every route of the server while the clock advances past the tokens' expiry
SpecClock == InitClock /\ [][NextClock]_vars

----------------------------------------------------------------------------
(* Claims about the credential store and the auth gates *)

\* a request of this route was answered in this step
Answered(route) == last'.route = route /\ last' # last

DistinctEmails ==
    \A i, j \in 1..Len(users) : i # j => users[i].email # users[j].email

\* C1: when signups do not overlap, a valid signup whose email already belongs
\* to a stored user is answered 409 with success false and changes neither the
\* store nor the id counter; so no two stored users ever share an email.
C1_SerialDuplicateSignupIs409 ==
    /\ []DistinctEmails
    /\ [][(/\ Answered("signup")
           /\ SignupValidate(last'.req.body) = <<>>
           /\ \E i \in 1..Len(users) : users[i].email = last'.req.body.email)
          => (/\ last'.res.status = 409
              /\ last'.res.body.success = FALSE
              /\ users' = users
              /\ nextUserId' = nextUserId)]_vars

C1_Witness ==
    /\ last.route = "signup"
    /\ last.res.status = 409
    /\ \E i \in 1..Len(users) : users[i].email = last.req.body.email

\* C2: a create that passed the uniqueness scan before it suspended completes
\* with 201 and appends its record whatever was stored in the meantime; so two
\* overlapping signups with one fresh email both succeed, and a state with two
\* stored users of the same email is reachable.
C2_CreateAfterScanAlwaysSucceeds ==
    [][\A r \in Suspended :
          (r.pc = "hashing" /\ CopiesIn(r, pending') < CopiesIn(r, pending))
          => (/\ last'.route = "signup"
              /\ last'.req.body = r.body
              /\ last'.res.status = 201
              /\ last'.res.body.success
              /\ Len(users') = Len(users) + 1
              /\ SubSeq(users', 1, Len(users)) = users
              /\ users'[Len(users')].email = r.body.email
              /\ users'[Len(users')].id = last'.res.body.data.user.id)]_vars

C2_Witness ==
    /\ last.route = "signup"
    /\ last.res.status = 201
    /\ Len(users) = 2
    /\ users[1].email = users[2].email
    /\ users[2].id = last.res.body.data.user.id

\* C3: a login with an email no stored user has and a login with a stored email
\* and a wrong password get the same answer: 401 with one and the same body.
C3_LoginFailuresIndistinguishable ==
    (/\ last.route = "login"
     /\ ~Missing(last.req.body, "email")
     /\ ~Missing(last.req.body, "password"))
    => LET body == last.req.body
           known == {i \in 1..Len(users) : users[i].email = body.email}
           first == CHOOSE i \in known : \A j \in known : i <= j
       IN (known = {} \/ users[first].password # HashPassword(body.password))
          => last.res = Json(401, [success |-> FALSE,
                                   message |-> "Invalid email or password"])

C3_Witness ==
    /\ last.route = "login"
    /\ last.res.status = 401
    /\ ~Missing(last.req.body, "email")
    /\ \E i \in 1..Len(users) : users[i].email = last.req.body.email

\* what the token of a request is, and why a gate may find it wanting
BearerToken(headers) == headers.Authorization.token[1]

Unusable(headers) ==
    \/ "Authorization" \notin DOMAIN headers
    \/ headers.Authorization.scheme # "Bearer "
    \/ headers.Authorization.token = <<>>

Named(headers) == {i \in 1..Len(users) : users[i].id = BearerToken(headers).userId}

Attached(g, headers) ==
    /\ g.sent = <<>>
    /\ g.nexts = 1
    /\ \E i \in Named(headers) :
          g.user = <<[id |-> users[i].id, email |-> users[i].email,
                      name |-> users[i].name]>>

Sent(g, status) ==
    /\ g.nexts = 0
    /\ Len(g.sent) = 1
    /\ g.sent[1].status = status
    /\ g.sent[1].body.success = FALSE

\* C4 as claimed: 401 when the header is missing, not a Bearer header, without
\* a token, or the token fails verification in any way; in every other case
\* the stored user named by the token is attached and the request passes.
C4_AsClaimed ==
    last.route \in {"me", "verify"}
    => LET headers == last.req.headers
       IN IF Unusable(headers) THEN Sent(last.gate, 401)
          ELSE IF JwtVerify(BearerToken(headers), env.JWT_SECRET, now) # ""
          THEN Sent(last.gate, 401)
          ELSE Attached(last.gate, headers)

\* C4, amended: 401 when the header is missing, not a Bearer header, without a
\* token, when verification fails with JsonWebTokenError or TokenExpiredError,
\* or when the verified token names no stored user; 500 when verification
\* fails with any other error; in every other case exactly {id, email, name}
\* of the stored user named by the token is attached and the request passes.
\* No request passes without an attached user.
C4_RequiredGate ==
    last.route \in {"me", "verify"}
    => LET headers == last.req.headers
           g == last.gate
       IN /\ (g.nexts > 0 => g.user # <<>>)
          /\ IF Unusable(headers) THEN Sent(g, 401)
             ELSE LET err == JwtVerify(BearerToken(headers), env.JWT_SECRET, now)
                  IN IF err \in {"JsonWebTokenError", "TokenExpiredError"}
                     THEN Sent(g, 401)
                     ELSE IF err # "" THEN Sent(g, 500)
                     ELSE IF Named(headers) = {} THEN Sent(g, 401)
                     ELSE Attached(g, headers) /\ last.res.status = 200

C4_Witness ==
    /\ last.route = "me"
    /\ last.res.status = 200
    /\ last.gate.user # <<>>
    /\ last.res.body.data.user = last.gate.user

----------------------------------------------------------------------------
(* Claims about the code-operation routes *)

CodeRoutes == {"analyze", "debug", "translate"}

\* a request the validation of its route has to refuse
Refused(route, body) ==
    \/ "code" \notin DOMAIN body
    \/ Len(body.code.text) + body.code.tail = 0
    \/ Len(body.code.text) + body.code.tail > MaxCodeLength
    \/ "language" \notin DOMAIN body
    \/ body.language = ""
    \/ /\ route = "translate"
       /\ ("targetLanguage" \notin DOMAIN body \/ body.targetLanguage = "")

\* the header carries a token that verifies now
Verifies(headers) ==
    /\ ~Unusable(headers)
    /\ JwtVerify(BearerToken(headers), env.JWT_SECRET, now) = ""

\* C5: optionalAuth never blocks a request: whatever the Authorization header,
\* it sends no response and calls next() once; req.user is null unless the
\* header carries a token that verifies and names a stored user, and then it is
\* that user's {id, email, name}.
C5_OptionalGateNeverBlocks ==
    [][\A route \in CodeRoutes :
          Answered(route) =>
              LET headers == last'.req.headers
                  g == last'.gate
              IN /\ g.sent = <<>>
                 /\ g.nexts = 1
                 /\ last'.req.user = g.user
                 /\ last'.res.status # 401
                 /\ IF Verifies(headers) /\ Named(headers) # {}
                    THEN \E i \in Named(headers) :
                            g.user = <<[id |-> users[i].id, email |-> users[i].email,
                                        name |-> users[i].name]>>
                    ELSE g.user = <<>>]_vars

\* an expired token of a stored user: the request is served as a guest's
C5_Witness ==
    /\ last.route \in CodeRoutes
    /\ ~Unusable(last.req.headers)
    /\ JwtVerify(BearerToken(last.req.headers), env.JWT_SECRET, now) = "TokenExpiredError"
    /\ Named(last.req.headers) # {}
    /\ last.req.user = <<>>
    /\ last.res.status = 200

\* C6: on each code-operation route a request with code longer than 10,000
\* characters, or without code, language or (translate) targetLanguage, is
\* answered 400 with no adapter invoked, no request left suspended and the user
\* store unchanged, also for an authenticated caller.
C6_InvalidRequestIs400WithoutEffect ==
    [][\A route \in CodeRoutes :
          Answered(route) /\ Refused(route, last'.req.body) =>
              /\ last'.res.status = 400
              /\ last'.res.body.success = FALSE
              /\ last'.calls = <<>>
              /\ users' = users
              /\ pending' = pending]_vars

\* an authenticated caller's oversized submission is refused
C6_Witness ==
    /\ last.route \in CodeRoutes
    /\ "code" \in DOMAIN last.req.body
    /\ Len(last.req.body.code.text) + last.req.body.code.tail = MaxCodeLength + 1
    /\ last.req.user # <<>>
    /\ last.res.status = 400
    /\ \A i \in 1..Len(users) : users[i].sessions = <<>>

RequiredKeys ==
    [analyze |-> {"language", "overview", "lineByLineAnalysis", "output", "summary",
                  "suggestions"},
     debug |-> {"language", "issues", "suggestions", "fixedCode", "summary"},
     translate |-> {"language", "translatedCode", "dependencies", "notes"}]

\* C7 as claimed: without a provider credential every valid request to a
\* code-operation route is answered 200 with the required keys of its route in
\* data.
C7_AsClaimed ==
    \A route \in CodeRoutes :
        last.route = route /\ ~Refused(route, last.req.body) =>
            /\ last.res.status = 200
            /\ RequiredKeys[route] \subseteq DOMAIN last.res.body.data

\* C8 as claimed: without a provider key, /api/debug on code containing 'var '
\* returns data.issues with an entry of type "syntax" that mentions var.
C8_AsClaimed ==
    ( /\ last.route = "debug"
      /\ ~Refused("debug", last.req.body)
      /\ CodeIncludes(last.req.body.code, <<"v", "a", "r", " ">>) )
    => /\ last.res.status = 200
       /\ "issues" \in DOMAIN last.res.body.data
       /\ \E i \in 1..Len(last.res.body.data.issues) :
             /\ last.res.body.data.issues[i].type = "syntax"
             /\ "Usage of 'var' keyword found"
                    \in Range(last.res.body.data.issues[i].description)

\* the characters that are neither white space nor a line break
Ink(text, i) == ~IsSpace(text[i]) /\ text[i] # "\n"

SameLine(text, i, j) == \A k \in i..(j - 1) : text[k] # "\n"

\* where each non-blank line has its first and its last ink
FirstInk(text) ==
    {i \in 1..Len(text) :
        Ink(text, i) /\ \A j \in 1..(i - 1) : SameLine(text, j, i) => ~Ink(text, j)}

LastInk(text, p) ==
    CHOOSE q \in p..Len(text) :
        /\ Ink(text, q) /\ SameLine(text, p, q)
        /\ \A r \in (q + 1)..Len(text) : ~(Ink(text, r) /\ SameLine(text, p, r))

\* the k-th non-blank line of the text, without the white space around it
SourceLine(text, k) ==
    LET p == CHOOSE i \in FirstInk(text) :
                 Cardinality({j \in FirstInk(text) : j < i}) = k - 1
    IN SubSeq(text, p, LastInk(text, p))

\* C9: without a provider key, /api/analyze on valid code with at least one
\* non-blank line answers 200 with success true, data.language the declared
\* language, and lineByLineAnalysis holding, for each of the first three
\* non-blank lines in order, an entry whose line is that line trimmed.
C9_DemoAnalysisCoversFirstLines ==
    ( /\ last.route = "analyze"
      /\ ~Refused("analyze", last.req.body)
      /\ FirstInk(last.req.body.code.text) # {} )
    => LET text == last.req.body.code.text
           n == Cardinality(FirstInk(text))
           data == last.res.body.data
       IN /\ last.res.status = 200
          /\ last.res.body.success = TRUE
          /\ data.language = last.req.body.language
          /\ Len(data.lineByLineAnalysis) >= Min(3, n)
          /\ \A k \in 1..Min(3, n) :
                data.lineByLineAnalysis[k].line = SourceLine(text, k)

\* five non-blank lines, some indented: three entries and the "more" notice
C9_Witness ==
    /\ last.route = "analyze"
    /\ last.req.body = [code |-> CodeLines, language |-> "JavaScript"]
    /\ last.res.status = 200
    /\ Len(last.res.body.data.lineByLineAnalysis) = 4
    /\ last.res.body.data.lineByLineAnalysis[1].line = <<"a", "=", "1">>

\* a provider call made for the request failed
Failed(replies) == \E i \in 1..Len(replies) : "error" \in DOMAIN replies[i]

\* C10 as claimed: whenever a live provider call made for a code operation
\* fails, the caller gets 200 with success true and a heuristic result, one
\* written by getDemoResponse or getDemoTranslateResponse.
C10_AsClaimed ==
    (last.route \in CodeRoutes /\ Failed(last.replies)) =>
        LET code == last.req.body.code
            language == last.req.body.language
            data == last.res.body.data
        IN /\ last.res.status = 200
           /\ last.res.body.success = TRUE
           /\ \/ data = GetDemoResponse(prompts[last.route], code, language,
                                        IF last.route = "translate" THEN <<"Python">>
                                        ELSE <<>>)
              \/ data = GetDemoTranslateResponse(code, language)

\* what a request is answered with once a provider call made for it has failed
AfterFailure(route, code, language, replies) ==
    IF route # "translate"
    THEN GetDemoResponse(prompts[route], code, language, <<>>)
    ELSE LET final == replies[Len(replies)]
             stub == GetDemoResponse(prompts.translate, code, language, <<"Python">>)
         IN IF Len(replies) = 1 \/ "error" \in DOMAIN final THEN stub
            ELSE IF final.content = <<>> THEN stub
            ELSE LET parsed == JsonParse(StripFence(final.content[1]))
                 IN IF parsed.ok /\ HasTranslatedCode(parsed.value)
                    THEN parsed.value[1]
                    ELSE GetDemoTranslateResponse(code, language)

\* C10, amended: a failed provider call is always answered 200 with success
\* true.  For analyze and debug the data is getDemoResponse's result for the
\* route's prompt.  For translate the failed Hugging Face call is followed by
\* callOpenAI with the translate prompt and target 'Python', whose result is
\* returned when it has a non-empty translatedCode (the live translation, or
\* getDemoResponse's stub when OpenAI has no key or fails as well); otherwise
\* the data is getDemoTranslateResponse's.
C10_ProviderFailureIs200 ==
    (last.route \in CodeRoutes /\ Failed(last.replies)) =>
        /\ last.res.status = 200
        /\ last.res.body.success = TRUE
        /\ last.res.body.data = AfterFailure(last.route, last.req.body.code,
                                             last.req.body.language, last.replies)

\* Hugging Face failed and the live OpenAI translation was returned
C10_Witness ==
    /\ last.route = "translate"
    /\ Len(last.replies) = 2
    /\ "error" \in DOMAIN last.replies[1]
    /\ last.res.status = 200
    /\ last.res.body.data = LiveResult.translate

\* the code operations served last or suspended at a provider call
CodeOps ==
    (IF last.route \in CodeRoutes THEN {last} ELSE {})
    \cup AwaitingOpenAI \cup AwaitingHf

\* C11: an adapter whose credential is unset or one of its placeholders issues
\* no network call and goes directly to its heuristic responder, and the
\* request it serves makes no outbound call at all.
C11_NoCallWithoutCredential ==
    LET noOpenAI == env.OPENAI_API_KEY \in {"", "sk-test-demo-key-for-testing",
                                            "your_openai_api_key_here"}
        noHf == env.HF_API_KEY \in {"", "your_token_here", "hf_your_actual_token_here"}
    IN /\ noOpenAI => /\ AwaitingOpenAI = {}
                      /\ \A r \in CodeOps : "POST api.openai.com" \notin Range(r.calls)
       /\ noHf => /\ AwaitingHf = {}
                  /\ \A r \in CodeOps :
                        "POST api-inference.huggingface.co" \notin Range(r.calls)
       /\ (last.route \in {"analyze", "debug"} /\ last.res.status = 200 /\ noOpenAI)
              => last.calls = <<"callOpenAI", "getDemoResponse">>
       /\ (last.route = "translate" /\ last.res.status = 200 /\ noHf)
              => last.calls = <<"callHuggingFaceTranslate", "getDemoTranslateResponse">>

\* a translation served under the second Hugging Face placeholder while the
\* OpenAI key is real
C11_Witness ==
    /\ last.route = "translate"
    /\ last.res.status = 200
    /\ env.HF_API_KEY = "hf_your_actual_token_here"
    /\ env.OPENAI_API_KEY = "sk-proj-live"
    /\ last.calls = <<"callHuggingFaceTranslate", "getDemoTranslateResponse">>

\* a content that is one JSON value, bare or between a leading ```json or ```
\* fence and an optional closing ``` fence, white space aside
Parseable(content) ==
    LET core == SelectSeq(content, LAMBDA tok : tok.t # "ws")
    IN \/ Len(core) = 1 /\ core[1].t = "json"
       \/ /\ Len(core) \in {2, 3}
          /\ core[1].t = "fence" /\ core[1].info \in {"json", ""}
          /\ core[2].t = "json"
          /\ Len(core) = 3 => (core[3].t = "fence" /\ core[3].info = "")

\* the request was answered after an OpenAI reply whose content is not parseable
UnparsedReply ==
    /\ last.route \in CodeRoutes
    /\ last.replies # <<>>
    /\ LET final == last.replies[Len(last.replies)]
       IN /\ "POST api.openai.com" \in Range(last.calls)
          /\ "content" \in DOMAIN final
          /\ final.content # <<>>
          /\ ~Parseable(final.content[1])

\* C12: when the content of a live OpenAI reply cannot be parsed as JSON after
\* the fences are stripped, callOpenAI returns, for the debug prompt, an object
\* with language, one 'parsing' issue, suggestions, fixedCode equal to the
\* submitted code, summary and rawResponse, and for any other prompt
\* {error, rawResponse}; the route answers 200.
C12_ParseFailureIsStructured ==
    UnparsedReply =>
        LET raw == last.replies[Len(last.replies)].content[1]
            data == last.res.body.data
        IN /\ last.res.status = 200
           /\ last.res.body.success = TRUE
           /\ last.route = "debug" =>
                 /\ DOMAIN data = {"language", "issues", "suggestions", "fixedCode",
                                   "summary", "rawResponse"}
                 /\ data.language = last.req.body.language
                 /\ Len(data.issues) = 1
                 /\ data.issues[1].type = "parsing"
                 /\ data.fixedCode = last.req.body.code
                 /\ data.rawResponse = raw
           /\ last.route = "analyze" =>
                 /\ DOMAIN data = {"error", "rawResponse"}
                 /\ data.error = "Failed to parse AI response"
                 /\ data.rawResponse = raw
           \* the translate fallback finds no translatedCode in {error, rawResponse}
           /\ last.route = "translate" =>
                 data = GetDemoTranslateResponse(last.req.body.code,
                                                 last.req.body.language)

\* a debug reply in a ```js fence: what is left after stripping does not parse
C12_Witness ==
    /\ UnparsedReply
    /\ last.route = "debug"
    /\ last.replies[1].content[1][1] = FenceTok("js")
    /\ last.res.status = 200
    /\ last.res.body.data.issues[1].type = "parsing"

\* the last session stored for the user the gate attached to the request
LastSession(r) ==
    LET sessions == users[FindById(users, r.req.user[1].id)].sessions
    IN sessions[Len(sessions)]

\* C13: /api/translate always translates to Python. What it answers is computed
\* from the code and the source language alone (with the constant 'Python' on
\* the OpenAI fallback), data.language is 'Python' on the Hugging Face path and
\* on the heuristic path, and the requested targetLanguage is kept only in the
\* session stored for an authenticated caller.
C13_TranslateTargetsPython ==
    (last.route = "translate" /\ last.res.status = 200) =>
        LET data == last.res.body.data
            code == last.req.body.code
            language == last.req.body.language
            onHf == "processHuggingFaceTranslateResponse" \in Range(last.calls)
            heuristic == "getDemoTranslateResponse" \in Range(last.calls)
        IN /\ onHf => data = ProcessHuggingFaceTranslateResponse(
                                 last.replies[Len(last.replies)].data, code, language)
           /\ heuristic => data = GetDemoTranslateResponse(code, language)
           /\ (~onHf /\ ~heuristic) =>
                 data = GetDemoResponse(prompts.translate, code, language, <<"Python">>)
           /\ (onHf \/ heuristic) => data.language = "Python"
           /\ last.req.user # <<>> =>
                 /\ LastSession(last).targetLanguage = last.req.body.targetLanguage
                 /\ LastSession(last).result = data

\* a signed-up user asks for Rust and the translation model answers
C13_Witness ==
    /\ last.route = "translate"
    /\ last.res.status = 200
    /\ last.req.user # <<>>
    /\ last.req.body.targetLanguage = "Rust"
    /\ "processHuggingFaceTranslateResponse" \in Range(last.calls)
    /\ last.res.body.data.language = "Python"
    /\ LastSession(last).targetLanguage = "Rust"

----------------------------------------------------------------------------
(* Claims about accounts and sessions *)

AuthRoutes == {"signup", "login", "me", "verify"}

\* the passwords clients submit and the hashes the store holds
Secrets ==
    Passwords \cup ShortPasswords \cup {users[i].password : i \in 1..Len(users)}

\* a user object of a response: no password field, and no field that holds a
\* password or a hash
Discreet(user) ==
    /\ DOMAIN user \subseteq {"id", "email", "name", "createdAt"}
    /\ user.email \notin Secrets

\* what a 201 reports and stores, what the auth routes answer, what the store holds
NoSecretLeaves ==
    /\ (last.route = "signup" /\ last.res.status = 201) =>
          LET user == last.res.body.data.user
              stored == users[FindById(users, user.id)]
          IN /\ user.email = last.req.body.email
             /\ stored.password = HashPassword(last.req.body.password)
             /\ stored.password # last.req.body.password
    /\ last.route \in AuthRoutes =>
          /\ DOMAIN last.res.body \subseteq {"success", "message", "data"}
          /\ "data" \in DOMAIN last.res.body =>
                /\ DOMAIN last.res.body.data \subseteq {"user", "token"}
                /\ IF last.route \in {"signup", "login"}
                   THEN /\ Discreet(last.res.body.data.user)
                        /\ DOMAIN last.res.body.data.token = {"userId", "iat", "exp", "sig"}
                   ELSE \A k \in 1..Len(last.res.body.data.user) :
                            Discreet(last.res.body.data.user[k])
    /\ \A i \in 1..Len(users) :
          /\ users[i].password \notin Passwords \cup ShortPasswords
          /\ \E p \in Passwords : users[i].password = HashPassword(p)

\* C14: a valid signup with a fresh email is answered 201 with a user whose
\* email is the one submitted; no response of signup, login, me or verify holds
\* a password or a hash; the stored password field is the hash of the
\* submitted password, never the plaintext.
C14_PasswordsStayInside ==
    /\ []NoSecretLeaves
    /\ [][(/\ Answered("signup")
           /\ SignupValidate(last'.req.body) = <<>>
           /\ FindByEmail(users, last'.req.body.email) = 0)
          => (/\ last'.res.status = 201
              /\ last'.res.body.data.user.email = last'.req.body.email
              /\ users'[Len(users')].email = last'.req.body.email
              /\ users'[Len(users')].password = HashPassword(last'.req.body.password))]_vars

C14_Witness ==
    /\ last.route = "signup"
    /\ last.res.status = 201
    /\ last.req.body.email = EmailB
    /\ last.res.body.data.user.email = EmailB
    /\ users[Len(users)].password = HashPassword(PasswordA)

\* local@domain.tld: no white space, exactly one '@', something before it, and
\* after it a dot with something on both sides
WellFormed(email) ==
    /\ \A k \in 1..Len(email) : ~IsSpace(email[k])
    /\ Cardinality({k \in 1..Len(email) : email[k] = "@"}) = 1
    /\ LET at == CHOOSE k \in 1..Len(email) : email[k] = "@"
       IN /\ at > 1
          /\ \E dot \in (at + 2)..(Len(email) - 1) : email[dot] = "."

\* C15: a signup whose email or password is missing, whose email is not of the
\* form local@domain.tld, or whose password has fewer than 6 characters is
\* answered 400 and changes neither the store nor the id counter.
C15_InvalidSignupIs400 ==
    [][(/\ Answered("signup")
        /\ LET body == last'.req.body
           IN \/ Missing(body, "email")
              \/ Missing(body, "password")
              \/ ~WellFormed(body.email)
              \/ Len(body.password) < 6)
       => (/\ last'.res.status = 400
           /\ last'.res.body.success = FALSE
           /\ users' = users
           /\ nextUserId' = nextUserId
           /\ pending' = pending)]_vars

\* five characters are refused while a user is stored
C15_Witness ==
    /\ last.route = "signup"
    /\ last.res.status = 400
    /\ ~Missing(last.req.body, "email")
    /\ ~Missing(last.req.body, "password")
    /\ WellFormed(last.req.body.email)
    /\ Len(last.req.body.password) = 5
    /\ Len(users) > 0
    /\ nextUserId = Len(users) + 1

\* the stored users who signed up with the credentials of a login
SignedUpWith(body) ==
    {i \in 1..Len(users) : /\ users[i].email = body.email
                           /\ users[i].password = HashPassword(body.password)}

\* C16 as claimed: after a successful signup a login with the same email and
\* password is answered 200 with a user of the same id and email; a login
\* without email or password is answered 400; the token of a signup or login,
\* sent as a Bearer token to /me or /verify, is answered 200 with that user's
\* {id, email, name}.
C16_AsClaimed ==
    /\ last.route = "login" =>
          IF Missing(last.req.body, "email") \/ Missing(last.req.body, "password")
          THEN last.res = Fail(400, "Email and password are required")
          ELSE \A i \in SignedUpWith(last.req.body) :
                  /\ last.res.status = 200
                  /\ last.res.body.data.user.id = users[i].id
                  /\ last.res.body.data.user.email = users[i].email
    /\ (last.route \in {"me", "verify"} /\ ~Unusable(last.req.headers)) =>
          \A i \in 1..Len(users) :
              BearerToken(last.req.headers) = GenerateToken(users[i].id)
              => /\ last.res.status = 200
                 /\ last.res.body.data.user = <<RequestUser(users[i])>>

\* the tokens signup or login can have issued to the stored users so far
Issued ==
    UNION {{[userId |-> users[i].id, iat |-> t, exp |-> t + ExpiresIn(env),
             sig |-> env.JWT_SECRET] : t \in users[i].createdAt..now} :
           i \in 1..Len(users)}

\* what the required gate does, now, with each of them
GateHonoursIssued ==
    \A tok \in Issued :
        LET headers == Authorization("Bearer ", <<tok>>)
            g == AuthMiddleware(headers, users, env.JWT_SECRET, now)
        IN IF now < tok.exp THEN Attached(g, headers) ELSE Sent(g, 401)

\* C17: expiry is the only way a token stops working. A token issued to a
\* stored user passes the required gate in every later state before its expiry
\* time, whatever signup, login, analyze, debug and translate requests are
\* served in between, and is answered 401 from its expiry time on.
C17_OnlyExpiryInvalidates ==
    /\ []GateHonoursIssued
    /\ [][((Answered("me") \/ Answered("verify"))
           /\ ~Unusable(last'.req.headers)
           /\ BearerToken(last'.req.headers) \in Issued)
          => IF now < BearerToken(last'.req.headers).exp
             THEN /\ last'.res.status = 200
                  /\ last'.res.body.data.user[1].id = BearerToken(last'.req.headers).userId
             ELSE last'.res.status = 401]_vars

\* the token of a signup is refused on the day it expires, after a session was
\* stored and another user signed up
C17_Witness ==
    /\ last.route = "me"
    /\ last.res.status = 401
    /\ last.res.body.message = "Token has expired"
    /\ BearerToken(last.req.headers) \in Issued
    /\ now = BearerToken(last.req.headers).exp
    /\ Len(users) = 2
    /\ \E i \in 1..Len(users) : users[i].sessions # <<>>

\* the step appended one session to the user of the request answered last and
\* changed nothing else in the store
AppendedForCaller ==
    /\ last'.route \in CodeRoutes
    /\ last'.res.status = 200
    /\ last'.req.user # <<>>
    /\ \E i \in 1..Len(users) :
          /\ users[i].id = last'.req.user[1].id
          /\ Len(users') = Len(users)
          /\ \A j \in 1..Len(users) : j # i => users'[j] = users[j]
          /\ \A f \in DOMAIN users[i] \ {"sessions"} : users'[i][f] = users[i][f]
          /\ Len(users'[i].sessions) = Len(users[i].sessions) + 1
          /\ SubSeq(users'[i].sessions, 1, Len(users[i].sessions)) = users[i].sessions
          /\ LET session == users'[i].sessions[Len(users'[i].sessions)]
                 body == last'.req.body
             IN /\ session.type = last'.route
                /\ session.code = body.code
                /\ session.language = body.language
                /\ session.result = last'.res.body.data
                /\ IF last'.route = "translate"
                   THEN session.targetLanguage = body.targetLanguage
                   ELSE "targetLanguage" \notin DOMAIN session

\* C18: a successful analyze, debug or translate request with a non-null
\* req.user appends exactly one session to that user (type, code, language, the
\* requested targetLanguage for translate, and the data sent as result) and
\* changes no other user; a guest request and a refused request leave the store
\* unchanged; a code operation changes nothing else.
C18_OnlyCallerSessionChanges ==
    [][/\ \A route \in CodeRoutes :
            Answered(route) =>
                /\ nextUserId' = nextUserId
                /\ env' = env
                /\ IF last'.res.status = 200 /\ last'.req.user # <<>>
                   THEN AppendedForCaller
                   ELSE users' = users
       /\ (users' # users /\ Len(users') = Len(users)) => AppendedForCaller]_vars

\* user 1 of two translated with a token; user 2 has no session
C18_Witness ==
    /\ last.route = "translate"
    /\ last.res.status = 200
    /\ last.req.user # <<>>
    /\ Len(users) = 2
    /\ Len(users[1].sessions) = 1
    /\ users[1].sessions[1].result = last.res.body.data
    /\ users[1].sessions[1].type = "translate"
    /\ users[2].sessions = <<>>

IsPrefix(s, t) == Len(s) <= Len(t) /\ SubSeq(t, 1, Len(s)) = s

\* a session a handler might store
ProbeSession ==
    [type |-> "debug", code |-> CodeTwo, language |-> "JavaScript",
     result |-> [language |-> "JavaScript"]]

\* User.addSession called in the current state for a stored or an unknown id
AddSessionContract ==
    \A userId \in 1..(MaxUsers + 1) :
        LET a == AddSession(users, userId, ProbeSession)
            known == {i \in 1..Len(users) : users[i].id = userId}
        IN IF known = {}
           THEN a.value = FALSE /\ a.users = users
           ELSE /\ a.value = TRUE
                /\ Len(a.users) = Len(users)
                /\ \E i \in known :
                      /\ \A j \in 1..Len(users) : j # i => a.users[j] = users[j]
                      /\ Len(a.users[i].sessions) = Len(users[i].sessions) + 1
                      /\ IsPrefix(users[i].sessions, a.users[i].sessions)
                      /\ LET record == a.users[i].sessions[Len(a.users[i].sessions)]
                         IN \A f \in DOMAIN ProbeSession : record[f] = ProbeSession[f]

\* C19: User.addSession appends one record at the end of the user's sessions
\* and returns true when a user with the id exists, and returns false and
\* changes nothing otherwise; every earlier value of a user's sessions is a
\* prefix of every later one.
C19_SessionsAppendOnly ==
    /\ []AddSessionContract
    /\ [][/\ Len(users') >= Len(users)
          /\ \A i \in 1..Len(users) :
                IsPrefix(users[i].sessions, users'[i].sessions)]_vars

\* a second session was appended behind the first; id 3 is unknown
C19_Witness ==
    /\ Len(users) = 2
    /\ Len(users[1].sessions) = 2
    /\ users[1].sessions[1].type # users[1].sessions[2].type
    /\ users[1].sessions[2].result = last.res.body.data
    /\ AddSession(users, 3, ProbeSession).value = FALSE
    /\ AddSession(users, 1, ProbeSession).value = TRUE

\* the stored ids are 1..n in insertion order and the counter is n + 1
IdsAreOneToN ==
    /\ \A i \in 1..Len(users) : users[i].id = i
    /\ \A i, j \in 1..Len(users) : i < j => users[i].id < users[j].id
    /\ nextUserId = Len(users) + 1

\* C20: user ids are unique and strictly increasing in insertion order, also
\* when signups overlap; a create that fails on a duplicate email consumes no
\* id, so the stored ids are exactly 1..n; the id, email and password hash of a
\* stored user never change, the list of users only grows by appending.
C20_IdsUniqueAndStable ==
    /\ []IdsAreOneToN
    /\ [][/\ Len(users') \in {Len(users), Len(users) + 1}
          /\ \A i \in 1..Len(users) :
                /\ users'[i].id = users[i].id
                /\ users'[i].email = users[i].email
                /\ users'[i].password = users[i].password
          /\ (Answered("signup") /\ last'.res.status # 201) =>
                (nextUserId' = nextUserId /\ users' = users)
          /\ nextUserId' # nextUserId =>
                (Answered("signup") /\ last'.res.status = 201
                 /\ Len(users') = Len(users) + 1)]_vars

\* two overlapping signups with one email got ids 1 and 2, and a third signup
\* with that email was refused without taking id 3
C20_Witness ==
    /\ Len(users) = 2
    /\ users[1].email = users[2].email
    /\ users[1].id = 1 /\ users[2].id = 2
    /\ last.route = "signup"
    /\ last.res.status = 409
    /\ nextUserId = 3

----------------------------------------------------------------------------
(* Claims about health, retries and error messages *)

\* C21 as claimed: each 'configured' boolean of GET /api/health is true exactly
\* when the provider's adapter would attempt a live call with the current
\* credential: openaiConfigured agrees with callOpenAI, huggingFaceConfigured
\* with callHuggingFaceTranslate, geminiConfigured with callGeminiDebug.
C21_AsClaimed ==
    last.route = "health" =>
        /\ last.res.body.openaiConfigured =
               CallOpenAI(env, prompts.analyze, CodeVar, "JavaScript", <<>>).awaits
        /\ last.res.body.huggingFaceConfigured =
               CallHuggingFaceTranslate(env, CodeVar, "JavaScript").awaits
        /\ last.res.body.geminiConfigured = GeminiLive(env)

Count(seq, x) == Cardinality({k \in 1..Len(seq) : seq[k] = x})

Posts(r) ==
    Count(r.calls, "POST api.openai.com")
    + Count(r.calls, "POST api-inference.huggingface.co")

\* C22 as claimed: there is no retry; when a live provider call fails no
\* further provider call is made for the request, so each request makes at
\* most one outbound provider call.
C22_AsClaimed ==
    \A r \in CodeOps : "calls" \in DOMAIN r => Posts(r) <= 1

\* C22, amended: no call is repeated. A request calls each provider at most
\* once: /api/analyze and /api/debug call OpenAI at most once and answer from
\* getDemoResponse when that call fails; /api/translate calls Hugging Face at
\* most once and, only after that call failed, OpenAI at most once; so a request
\* makes at most two outbound calls, and a second one only on /api/translate.
C22_NoCallRepeated ==
    \A r \in CodeOps :
        "calls" \in DOMAIN r =>
            /\ Count(r.calls, "POST api.openai.com") <= 1
            /\ Count(r.calls, "POST api-inference.huggingface.co") <= 1
            /\ Posts(r) = Len(r.replies) + (IF r \in Suspended THEN 1 ELSE 0)
            /\ r.route \in {"analyze", "debug"} =>
                  /\ "POST api-inference.huggingface.co" \notin Range(r.calls)
                  /\ (r = last /\ Failed(r.replies)) =>
                        r.calls = <<"callOpenAI", "POST api.openai.com", "getDemoResponse">>
            /\ Posts(r) = 2 =>
                  /\ r.route = "translate"
                  /\ "error" \in DOMAIN r.replies[1]
                  /\ SubSeq(r.calls, 1, 4) =
                         <<"callHuggingFaceTranslate", "POST api-inference.huggingface.co",
                           "callOpenAI", "POST api.openai.com">>

\* a translation whose Hugging Face call and OpenAI call both failed
C22_Witness ==
    /\ last.route = "translate"
    /\ Posts(last) = 2
    /\ Len(last.replies) = 2
    /\ "error" \in DOMAIN last.replies[1]
    /\ "error" \in DOMAIN last.replies[2]
    /\ last.res.status = 200

\* the texts a 500 carries that say nothing about the error
GenericMessages ==
    {"Internal server error", "Something went wrong!",
     "Failed to analyze code", "Failed to debug code", "Failed to translate code",
     "Server error during signup", "Server error during login",
     "Server error during authentication"}

----------------------------------------------------------------------------
(* Claims about the heuristic helpers *)

Candidates == {languageSignatures[i].name : i \in 1..Len(languageSignatures)}

Signature(lang) ==
    languageSignatures[CHOOSE i \in 1..Len(languageSignatures) :
                           languageSignatures[i].name = lang]

Points(call, lang) ==
    IF lang \notin Candidates THEN 0
    ELSE 2 * Cardinality({Signature(lang).keywords[k] :
                             k \in 1..Len(Signature(lang).keywords)}
                         \cap call.code.includes)
         + 3 * Cardinality({Signature(lang).patterns[k] :
                               k \in 1..Len(Signature(lang).patterns)}
                           \cap call.code.matches)
         + (IF lang = call.userSelectedLanguage THEN 5 ELSE 0)

\* C26: every candidate gets 2 points per keyword hit, 3 per pattern hit and 5
\* more when it is the declared language; the result of a call (here the most
\* recent one, in every state) is a language of maximal score with that score
\* as confidence, and it is the declared language whenever no other language
\* scores strictly higher, a declared language outside the candidates
\* counting as 0.
C26_MaximalScoreTiesToDeclared ==
    \A n \in {Len(DetectLog)} \ {0} :
        LET call == DetectLog[n]
            declared == call.userSelectedLanguage
        IN /\ call.result.language \in Candidates \cup {declared}
           /\ call.result.confidence = Points(call, call.result.language)
           /\ \A lang \in Candidates \cup {declared} :
                  Points(call, lang) <= call.result.confidence
           /\ (\A lang \in Candidates \ {declared} :
                   Points(call, lang) <= Points(call, declared))
              => call.result.language = declared

\* a tie kept by the declaration, a declaration beaten by another language,
\* and a declaration that is no candidate, with and without a better language
C26_Witness ==
    /\ Len(DetectLog) = 3
    /\ DetectLog[1].code = SrcHello /\ DetectLog[1].userSelectedLanguage = "C++"
    /\ DetectLog[1].result.language = "C++" /\ DetectLog[1].result.confidence = 15
    /\ Points(DetectLog[1], "C") = 15
    /\ DetectLog[2].code = SrcVar /\ DetectLog[2].userSelectedLanguage = "COBOL"
    /\ DetectLog[2].result.language = "JavaScript" /\ DetectLog[2].result.confidence = 2
    /\ DetectLog[3].code = SrcPlain /\ DetectLog[3].userSelectedLanguage = "COBOL"
    /\ DetectLog[3].result.language = "COBOL" /\ DetectLog[3].result.confidence = 0

\* the score of the claim, doubled, and the order of the four levels
ClaimedTwiceScore(code) ==
    code.lines + 6 * code.functions + 8 * code.loops + 4 * code.conditions
    + 10 * code.classes + 12 * code.recursion + 10 * code.asyncOperations
    + 6 * code.errorHandling + 8 * code.nestedStructures
    + 4 * code.complexDataStructures

Rank(level) ==
    CASE level = "beginner" -> 1 [] level = "intermediate" -> 2
      [] level = "advanced" -> 3 [] level = "expert" -> 4

\* C25: the level of a code is beginner when the weighted score is below 15,
\* intermediate from 15 and below 40, advanced from 40 and below 80, expert
\* from 80; and a code with one more function, loop or condition than the
\* code before it, the other counts being the same, never gets a lower level.
C25_BucketsAndMonotone ==
    last.route = "determineComplexity" =>
        /\ last.level = "beginner" <=> ClaimedTwiceScore(last.code) < 30
        /\ last.level = "intermediate" <=>
               (30 <= ClaimedTwiceScore(last.code) /\ ClaimedTwiceScore(last.code) < 80)
        /\ last.level = "advanced" <=>
               (80 <= ClaimedTwiceScore(last.code) /\ ClaimedTwiceScore(last.code) < 160)
        /\ last.level = "expert" <=> 160 <= ClaimedTwiceScore(last.code)
        /\ \A b \in {last.before[k] : k \in 1..Len(last.before)} :
               Rank(b.level) <= Rank(last.level)

\* one more loop takes a 29-line code from beginner to intermediate
C25_Witness ==
    /\ last.route = "determineComplexity"
    /\ Len(last.before) = 1
    /\ last.code.lines = 29
    /\ last.code.loops = last.before[1].code.loops + 1
    /\ last.before[1].level = "beginner"
    /\ last.level = "intermediate"

\* the tests by which each translator recognises a construct
Constructs(language) ==
    CASE language = "Java" ->
             {"includes System.out.println(", "includes System.out.print(",
              "/^(int|double|float|long|short|byte)\\s+\\w+/", "/^String\\s+\\w+/",
              "startsWith if ", "startsWith else if ", "=== else {", "=== else",
              "startsWith for ", "startsWith while ", "=== {", "=== }", "includes =",
              "endsWith ;"}
      [] language = "JavaScript" ->
             {"/^function\\s+\\w+\\s*\\(/", "includes =>", "/^(const|let|var)\\s+\\w+/",
              "includes console.log(", "includes console.clear()", "includes .push(",
              "includes .forEach(", "/^\\w+\\s*\\(/", "=== }", "=== });",
              "startsWith if ", "=== else {", "=== else", "startsWith return ",
              "includes =", "endsWith ;"}
      [] OTHER ->
             {"includes #include", "includes using namespace", "includes printf(",
              "includes cout <<", "/^(int|double|float|char)\\s+\\w+/"}

\* C27 (as claimed): in the Java, JavaScript and C-family translators every
\* non-blank source line that matches none of the recognised constructs is in
\* the output as a commented-out line.
C27_AsClaimed ==
    (/\ last.route = "generateSmartPythonTranslation"
     /\ last.language \in {"Java", "JavaScript", "C++", "C#"})
    => \A k \in 1..Len(last.code) :
           (/\ last.code[k].trimmed # ""
            /\ last.code[k].holds \cap Constructs(last.language) = {})
           => \E n \in 1..Len(last.pythonCode) :
                  /\ last.pythonCode[n].kind \in {"todo", "comment"}
                  /\ last.pythonCode[n].of = last.code[k].trimmed

----------------------------------------------------------------------------
(* Claims about the translate fallback, duplicate emails and the gates *)

HfPost == <<"callHuggingFaceTranslate", "POST api-inference.huggingface.co">>

\* the Hugging Face call of the translation served last was rejected
HfCallThrew ==
    /\ last.route = "translate"
    /\ Len(last.replies) >= 1
    /\ "error" \in DOMAIN last.replies[1]

\* the call resolved with null, which the processing cannot read
HfProcessingThrew ==
    /\ last.route = "translate"
    /\ Len(last.replies) >= 1
    /\ "data" \in DOMAIN last.replies[1]
    /\ last.replies[1].data.kind = "null"

\* what callOpenAI returned to the fallback of the translation served last
OpenAIResult ==
    IF Len(last.replies) = 1
    THEN <<GetDemoResponse(prompts.translate, last.req.body.code,
                           last.req.body.language, <<"Python">>)>>
    ELSE CallOpenAIResume(last.replies[2], prompts.translate, last.req.body.code,
                          last.req.body.language, <<"Python">>).value

Usable(result) ==
    /\ result # <<>>
    /\ "translatedCode" \in DOMAIN result[1]
    /\ result[1].translatedCode # <<>>

\* the order of the fallback after a throw: callOpenAI next, its result
\* returned when it has a translatedCode, getDemoTranslateResponse otherwise
FallbackOrder ==
    /\ SubSeq(last.calls, 1, 3) = Append(HfPost, "callOpenAI")
    /\ IF Usable(OpenAIResult)
       THEN /\ last.res.body.data = OpenAIResult[1]
            /\ "getDemoTranslateResponse" \notin Range(last.calls)
       ELSE /\ last.res.body.data = GetDemoTranslateResponse(last.req.body.code,
                                                             last.req.body.language)
            /\ last.calls[Len(last.calls)] = "getDemoTranslateResponse"
    /\ ~OpenAILive(env) =>
           /\ last.calls = HfPost \o <<"callOpenAI", "getDemoResponse">>
           /\ last.res.body.data.dependencies = <<"python-demo-package">>

\* C28 (as claimed): when the Hugging Face call or the processing after it
\* throws, callOpenAI is called next with the translate prompt and 'Python'
\* and its result is returned when it has a non-empty translatedCode;
\* getDemoTranslateResponse is used only otherwise.
C28_AsClaimed == (HfCallThrew \/ HfProcessingThrew) => FallbackOrder

\* C28, amended: when the Hugging Face call itself throws, callOpenAI is
\* called next with the translate prompt and 'Python' and its result is
\* returned when it has a non-empty translatedCode, getDemoTranslateResponse
\* being used only otherwise; with a real Hugging Face key whose call fails
\* and no OpenAI key the response is getDemoResponse's stub with dependencies
\* python-demo-package.  A throw in the processing of a delivered reply never
\* reaches that fallback: processHuggingFaceTranslateResponse catches it and
\* returns getDemoTranslateResponse, and callOpenAI is not called.
C28_FallbackOrder ==
    /\ HfCallThrew => FallbackOrder
    /\ HfProcessingThrew =>
           /\ last.calls = Append(HfPost, "processHuggingFaceTranslateResponse")
           /\ last.res.body.data = GetDemoTranslateResponse(last.req.body.code,
                                                            last.req.body.language)

\* a real Hugging Face key whose call failed, and no OpenAI key
C28_Witness ==
    /\ HfCallThrew
    /\ env.HF_API_KEY = "hf_live" /\ env.OPENAI_API_KEY = ""
    /\ last.calls = HfPost \o <<"callOpenAI", "getDemoResponse">>
    /\ last.res.body.data.dependencies = <<"python-demo-package">>
    /\ last.res.body.data # GetDemoTranslateResponse(last.req.body.code,
                                                     last.req.body.language)

\* the stored records with an email, and the earliest-created of them
RecordsWith(email) == {i \in 1..Len(users) : users[i].email = email}

Earliest(email) ==
    CHOOSE i \in RecordsWith(email) :
        \A j \in RecordsWith(email) \ {i} :
            users[i].id < users[j].id /\ users[i].createdAt <= users[j].createdAt

SignupToken(u) == [userId |-> u.id, iat |-> u.createdAt,
                   exp |-> u.createdAt + ExpiresIn(env), sig |-> env.JWT_SECRET]

\* C29: when stored users share an email, the lookup by email resolves to the
\* earliest-created of them: a login with that email succeeds only with the
\* first record's password and returns the first record's id; a later record
\* is reached by id only, its signup token passing the required gate as that
\* record.
C29_EmailResolvesToEarliest ==
    /\ \A email \in Emails :
           RecordsWith(email) # {} =>
               /\ \E i \in RecordsWith(email) :
                      \A j \in RecordsWith(email) \ {i} : users[i].id < users[j].id
               /\ FindByEmail(users, email) = Earliest(email)
    /\ (/\ last.route = "login"
        /\ ~Missing(last.req.body, "email") /\ ~Missing(last.req.body, "password")
        /\ RecordsWith(last.req.body.email) # {}) =>
           LET first == users[Earliest(last.req.body.email)]
           IN /\ last.res.status = 200 <=>
                     ComparePassword(last.req.body.password, first.password)
              /\ last.res.status = 200 => last.res.body.data.user.id = first.id
    /\ \A i \in 1..Len(users) :
           (now < users[i].createdAt + ExpiresIn(env)) =>
               LET g == AuthMiddleware(Authorization("Bearer ", <<SignupToken(users[i])>>),
                                       users, env.JWT_SECRET, now)
               IN g.nexts = 1 /\ g.user = <<RequestUser(users[i])>>
    /\ (/\ last.route = "me"
        /\ last.res.status = 200) =>
           last.res.body.data.user[1].id = last.req.headers.Authorization.token[1].userId

\* two records share an email; a login with the later record's password is
\* refused
C29_Witness ==
    /\ Len(users) = 2
    /\ users[1].email = users[2].email
    /\ users[1].password # users[2].password
    /\ last.route = "login"
    /\ last.req.body.email = users[2].email
    /\ ComparePassword(last.req.body.password, users[2].password)
    /\ last.res.status = 401

\* a gate that sent one response and did not call next(), or called next()
\* once and sent nothing
SettledOnce(g) ==
    \/ /\ Len(g.sent) = 1 /\ g.nexts = 0
       /\ g.steps = <<"res.json">>
       /\ g.sent[1].status \in {401, 500}
    \/ /\ g.sent = <<>> /\ g.nexts = 1
       /\ g.steps[Len(g.steps)] = "next"

\* a gate that assigned req.user, then called next() once, and sent nothing
AssignedThenNext(g) ==
    /\ g.sent = <<>> /\ g.nexts = 1
    /\ g.steps = <<"req.user =", "next">>
    /\ g.user = <<>> \/ (Len(g.user) = 1 /\ DOMAIN g.user[1] = {"id", "email", "name"})

\* C30: every request through an auth gate is settled exactly once:
\* authMiddleware either sends one response (401 or 500) or calls next() once,
\* never both and never neither; optionalAuth calls next() once, sends
\* nothing, and has set req.user, to a user projection or null, before.
C30_GatesSettleOnce ==
    /\ \A headers \in RequestHeaders :
           /\ SettledOnce(AuthMiddleware(headers, users, env.JWT_SECRET, now))
           /\ AssignedThenNext(OptionalAuth(headers, users, env.JWT_SECRET, now))
    /\ last.route \in {"me", "verify"} =>
           /\ SettledOnce(last.gate)
           /\ last.gate.nexts = 0 => last.res = last.gate.sent[1]
           /\ last.gate.nexts = 1 => last.res.status = 200
    /\ last.route \in CodeRoutes => AssignedThenNext(last.gate)

\* a token signed with another key: optionalAuth set req.user to null and
\* called next(), and the request was served
C30_Witness ==
    /\ last.route = "analyze"
    /\ ~NoAuthHeader(last.req.headers)
    /\ last.req.headers.Authorization.token # <<>>
    /\ JwtVerify(last.req.headers.Authorization.token[1], env.JWT_SECRET, now)
           = "JsonWebTokenError"
    /\ last.gate.steps = <<"req.user =", "next">>
    /\ last.gate.user = <<>>
    /\ last.res.status = 200
    /\ AuthMiddleware(last.req.headers, users, env.JWT_SECRET, now).sent[1].status = 401

====
